---- MODULE Spec2Model ----
(***************************************************************************)
(* Model of renomeador_lote.py: the batch rename planner.                  *)
(*                                                                         *)
(* Spec and SpecScan run main on bounded trees and command lines;          *)
(* SpecNames calls the functions of the name transformer on their own.     *)
(*                                                                         *)
(* A name is a sequence of one-character strings, a path is a sequence of  *)
(* names below the (resolved) root.  The filesystem is POSIX and           *)
(* case-sensitive: a function from the paths that exist (lstat) to their   *)
(* entries, each a file, a directory or a symbolic link.                   *)
(***************************************************************************)
EXTENDS Integers, Sequences, FiniteSets, TLC

(***************************************************************************)
(* Characters and strings                                                  *)
(***************************************************************************)

\* The ASCII letters and digits, in code point order.
UpperLetters ==
    <<"A", "B", "C", "D", "E", "F", "G", "H", "I", "J", "K", "L", "M",
       "N", "O", "P", "Q", "R", "S", "T", "U", "V", "W", "X", "Y", "Z">>
LowerLetters ==
    <<"a", "b", "c", "d", "e", "f", "g", "h", "i", "j", "k", "l", "m",
       "n", "o", "p", "q", "r", "s", "t", "u", "v", "w", "x", "y", "z">>
DigitChars ==
    <<"0", "1", "2", "3", "4", "5", "6", "7", "8", "9">>

\* The position of ch in the sequence seq, 0 when it is not there.
PosIn(seq, ch) ==
    IF \E k \in 1..Len(seq) : seq[k] = ch
    THEN CHOOSE k \in 1..Len(seq) : seq[k] = ch
    ELSE 0

\* The code points of the other characters that occur in names here.
\* "e'" stands for the accented letter U+00E9, "o'" for U+00F3.
PunctCode ==
    (" " :> 32) @@ ("!" :> 33) @@ ("(" :> 40) @@ ("-" :> 45) @@ ("." :> 46)
      @@ ("/" :> 47) @@ ("_" :> 95) @@ ("e'" :> 233) @@ ("o'" :> 243)

\* The code point of a character (Python compares str by code point).
CodeTable ==
    [ch \in {UpperLetters[k] : k \in 1..26} |-> 64 + PosIn(UpperLetters, ch)]
      @@ [ch \in {LowerLetters[k] : k \in 1..26} |-> 96 + PosIn(LowerLetters, ch)]
      @@ [ch \in {DigitChars[k] : k \in 1..10} |-> 47 + PosIn(DigitChars, ch)]
      @@ PunctCode

Code(ch) == IF ch \in DOMAIN CodeTable THEN CodeTable[ch] ELSE 0

\* str.lower() on one character.
LowerTable ==
    [ch \in {UpperLetters[k] : k \in 1..26} |->
        LowerLetters[PosIn(UpperLetters, ch)]]

LowerCh(ch) == IF ch \in DOMAIN LowerTable THEN LowerTable[ch] ELSE ch

\* str.lower()
Lower(s) == [k \in 1..Len(s) |-> LowerCh(s[k])]

\* Python's < on str: lexicographic by code point, a proper prefix is smaller.
RECURSIVE StrLess(_, _)
StrLess(s, t) ==
    IF t = <<>> THEN FALSE
    ELSE IF s = <<>> THEN TRUE
    ELSE IF Code(Head(s)) # Code(Head(t)) THEN Code(Head(s)) < Code(Head(t))
    ELSE StrLess(Tail(s), Tail(t))

\* The characters of s that satisfy keep, in order.
RECURSIVE FilterChars(_, _)
FilterChars(s, keep) ==
    IF s = <<>> THEN <<>>
    ELSE IF Head(s) \in keep THEN <<Head(s)>> \o FilterChars(Tail(s), keep)
    ELSE FilterChars(Tail(s), keep)

\* str.replace(old, new) for a one-character old.
ReplaceCh(s, old, new) == [k \in 1..Len(s) |-> IF s[k] = old THEN new ELSE s[k]]

\* CollapseRuns leaving every run as it is.
CollapseRunsNever(s, ch) == s

\* re.sub(ch{2,}, ch, s): every run of two or more ch becomes one ch.
RECURSIVE CollapseRuns(_, _)
CollapseRuns(s, ch) ==
    IF Len(s) < 2 THEN s
    ELSE IF s[1] = ch /\ s[2] = ch THEN CollapseRuns(Tail(s), ch)
    ELSE <<Head(s)>> \o CollapseRuns(Tail(s), ch)

\* str.lstrip(chars)
RECURSIVE LStrip(_, _)
LStrip(s, chars) ==
    IF s # <<>> /\ Head(s) \in chars THEN LStrip(Tail(s), chars) ELSE s

\* str.rstrip(chars)
RECURSIVE RStrip(_, _)
RStrip(s, chars) ==
    IF s # <<>> /\ s[Len(s)] \in chars THEN RStrip(SubSeq(s, 1, Len(s) - 1), chars)
    ELSE s

\* strip removing at most one character at each end.
StripOnce(s, chars) ==
    LET a == IF s # <<>> /\ Head(s) \in chars THEN Tail(s) ELSE s
    IN  IF a # <<>> /\ a[Len(a)] \in chars THEN SubSeq(a, 1, Len(a) - 1) ELSE a

\* str.strip(chars)
Strip(s, chars) == RStrip(LStrip(s, chars), chars)

\* s.startswith(pre)
StartsWith(s, pre) == Len(pre) <= Len(s) /\ SubSeq(s, 1, Len(pre)) = pre

\* re.sub(pat, repl, s) for a pattern that is a literal, non-empty string:
\* the non-overlapping occurrences, leftmost first, are replaced.
RECURSIVE ReSub(_, _, _)
ReSub(pat, repl, s) ==
    IF s = <<>> THEN <<>>
    ELSE IF StartsWith(s, pat)
         THEN repl \o ReSub(pat, repl, SubSeq(s, Len(pat) + 1, Len(s)))
    ELSE <<Head(s)>> \o ReSub(pat, repl, Tail(s))

\* re.compile accepting every pattern.
ReCompileNeverFails(pat) == FALSE

\* re.compile(pat) raises re.error: of the patterns drawn here, the one with
\* an unterminated group.
ReCompileFails(pat) == \E k \in 1..Len(pat) : pat[k] = "("

Whitespace == {" "}
AsciiLetters ==
    {UpperLetters[k] : k \in 1..26} \cup {LowerLetters[k] : k \in 1..26}
Digits == {DigitChars[k] : k \in 1..10}
FallbackName == <<"i", "t", "e", "m">>

(***************************************************************************)
(* The name transformer                                                    *)
(***************************************************************************)

\* strip_accents leaving every character as it is.
strip_accents_none(s) == s

\* The NFKD decomposition of an accented letter without its combining mark.
AccentBase == ("e'" :> "e") @@ ("o'" :> "o")

\* strip_accents: NFKD decomposition, combining marks dropped.
strip_accents(s) ==
    [k \in 1..Len(s) |->
        IF s[k] \in DOMAIN AccentBase THEN AccentBase[s[k]] ELSE s[k]]

\* slugify_name stripping the edges before it filters the characters.
slugify_name_strip_first(name, lower, spaces_to_underscore, keep_dots) ==
    LET s1 == strip_accents(name)
        s2 == IF lower THEN Lower(s1) ELSE s1
        s3 == IF spaces_to_underscore THEN ReplaceCh(s2, " ", "_")
              ELSE ReplaceCh(s2, " ", "-")
        allowed == AsciiLetters \cup Digits \cup {"_", "-"}
                     \cup (IF keep_dots THEN {"."} ELSE {})
        s4 == Strip(s3, {"_", "-"})
        s5 == FilterChars(s4, allowed)
        s6 == CollapseRuns(s5, "_")
        s7 == CollapseRuns(s6, "-")
    IN  IF s7 # <<>> THEN s7 ELSE FallbackName

\* slugify_name turning every space into an underscore.
slugify_name_with_underscores(name, lower, spaces_to_underscore, keep_dots) ==
    LET s1 == strip_accents(name)
        s2 == IF lower THEN Lower(s1) ELSE s1
        s3 == ReplaceCh(s2, " ", "_")
        allowed == AsciiLetters \cup Digits \cup {"_", "-"}
                     \cup (IF keep_dots THEN {"."} ELSE {})
        s4 == FilterChars(s3, allowed)
        s5 == CollapseRuns(s4, "_")
        s6 == CollapseRuns(s5, "-")
        s7 == Strip(s6, {"_", "-"})
    IN  IF s7 # <<>> THEN s7 ELSE FallbackName

slugify_name(name, lower, spaces_to_underscore, keep_dots) ==
    LET s1 == strip_accents(name)
        s2 == IF lower THEN Lower(s1) ELSE s1
        s3 == IF spaces_to_underscore THEN ReplaceCh(s2, " ", "_")
              ELSE ReplaceCh(s2, " ", "-")
        allowed == AsciiLetters \cup Digits \cup {"_", "-"}
                     \cup (IF keep_dots THEN {"."} ELSE {})
        s4 == FilterChars(s3, allowed)
        s5 == CollapseRuns(s4, "_")
        s6 == CollapseRuns(s5, "-")
        s7 == Strip(s6, {"_", "-"})
    IN  IF s7 # <<>> THEN s7 ELSE FallbackName

\* apply_transformations with the prefix and the suffix added before the
\* normalization.
apply_transformations_framing_first(original_name, o) ==
    LET n1 == IF o.regex # <<>> /\ ~ReCompileFails(o.regex)
              THEN ReSub(o.regex, o.to, original_name)
              ELSE original_name
        n2 == o.prefix \o n1 \o o.suffix
        n3 == IF o.slugify
              THEN slugify_name(n2, o.lower, o.spaces_to_underscore, TRUE)
              ELSE LET a == IF o.spaces_to_underscore THEN ReplaceCh(n2, " ", "_")
                            ELSE n2
                   IN  IF o.lower THEN Lower(a) ELSE a
        n4 == Strip(n3, Whitespace)
    IN  IF n4 # <<>> THEN n4 ELSE FallbackName

\* apply_transformations without the final strip().
apply_transformations_untrimmed(original_name, o) ==
    LET n1 == IF o.regex # <<>> /\ ~ReCompileFails(o.regex)
              THEN ReSub(o.regex, o.to, original_name)
              ELSE original_name
        n2 == IF o.slugify
              THEN slugify_name(n1, o.lower, o.spaces_to_underscore, TRUE)
              ELSE LET a == IF o.spaces_to_underscore THEN ReplaceCh(n1, " ", "_")
                            ELSE n1
                   IN  IF o.lower THEN Lower(a) ELSE a
        n3 == o.prefix \o n2 \o o.suffix
    IN  IF n3 # <<>> THEN n3 ELSE FallbackName

\* o: the options record (the parsed arguments).
apply_transformations(original_name, o) ==
    LET n1 == IF o.regex # <<>> /\ ~ReCompileFails(o.regex)
              THEN ReSub(o.regex, o.to, original_name)
              ELSE original_name
        n2 == IF o.slugify
              THEN slugify_name(n1, o.lower, o.spaces_to_underscore, TRUE)
              ELSE LET a == IF o.spaces_to_underscore THEN ReplaceCh(n1, " ", "_")
                            ELSE n1
                   IN  IF o.lower THEN Lower(a) ELSE a
        n3 == IF o.prefix # <<>> THEN o.prefix \o n2 ELSE n2
        n4 == IF o.suffix # <<>> THEN n3 \o o.suffix ELSE n3
        n5 == Strip(n4, Whitespace)
    IN  IF n5 # <<>> THEN n5 ELSE FallbackName

\* str.rfind("."): the last index of a dot, 0 when there is none.
RECURSIVE RFindDot(_)
RFindDot(s) ==
    IF s = <<>> THEN 0
    ELSE IF s[Len(s)] = "." THEN Len(s)
    ELSE RFindDot(SubSeq(s, 1, Len(s) - 1))

\* pathlib's PurePath.suffix: from the last dot, unless that dot is the first
\* or the last character of the name.
PathSuffix(name) ==
    LET k == RFindDot(name)
    IN  IF 0 < k - 1 /\ k < Len(name) THEN SubSeq(name, k, Len(name)) ELSE <<>>

\* pathlib's PurePath.stem
PathStem(name) ==
    LET k == RFindDot(name)
    IN  IF 0 < k - 1 /\ k < Len(name) THEN SubSeq(name, 1, k - 1) ELSE name

(***************************************************************************)
(* Paths and the filesystem                                                *)
(*                                                                         *)
(* f maps every path that exists below the root to its entry               *)
(* [kind, target, ino]: kind is "file", "dir" or "link"; target is the     *)
(* text of a symbolic link, a sibling name or OutsideName; ino identifies  *)
(* the entry.  The root is the path <<>>, a directory with ino 0.          *)
(***************************************************************************)

Parent(p) == SubSeq(p, 1, Len(p) - 1)
BaseName(p) == p[Len(p)]
IsPrefix(a, b) == Len(a) <= Len(b) /\ SubSeq(b, 1, Len(a)) = a

\* The text of a link that points to a regular file outside the root.
OutsideName == <<"/">>

\* Path.resolve(): a symbolic link is replaced by what it points to.
Resolve(f, p) ==
    IF p \in DOMAIN f /\ f[p].kind = "link"
    THEN IF f[p].target = OutsideName THEN <<OutsideName>>
         ELSE Parent(p) \o <<f[p].target>>
    ELSE p

\* Path.exists(): follows symbolic links.
Exists(f, p) ==
    LET r == Resolve(f, p) IN r = <<OutsideName>> \/ r \in DOMAIN f

\* Path.is_dir(): follows symbolic links.
is_dir(f, p) ==
    LET r == Resolve(f, p) IN r \in DOMAIN f /\ f[r].kind = "dir"

\* Path.is_file(): follows symbolic links.
is_file(f, p) ==
    LET r == Resolve(f, p)
    IN  r = <<OutsideName>> \/ (r \in DOMAIN f /\ f[r].kind = "file")

is_hidden_path(p) == BaseName(p) # <<>> /\ BaseName(p)[1] = "."

is_within_root(f, p) == Resolve(f, p) # <<OutsideName>>

\* The ino of the directory that holds p.
ParentIno(f, p) == IF Len(p) = 1 THEN 0 ELSE f[Parent(p)].ino

\* os.rename(src, dst) raises OSError.  ro: the inos of the directories the
\* process may not write to.
RenameFails(f, ro, src, dst) ==
    \/ src \notin DOMAIN f
    \/ ParentIno(f, src) \in ro
    \/ /\ dst \in DOMAIN f
       /\ \/ f[src].kind # "dir" /\ f[dst].kind = "dir"
          \/ f[src].kind = "dir" /\ f[dst].kind # "dir"
          \/ /\ f[src].kind = "dir" /\ f[dst].kind = "dir"
             /\ \E q \in DOMAIN f : q # dst /\ IsPrefix(dst, q)

\* The filesystem after a successful os.rename(src, dst): the entry at src,
\* with everything beneath it, is now at dst; what was at dst is gone.
Rename(f, src, dst) ==
    LET moved == {q \in DOMAIN f : IsPrefix(src, q)}
        to(q) == dst \o SubSeq(q, Len(src) + 1, Len(q))
        kept  == {q \in DOMAIN f : ~IsPrefix(src, q) /\ ~IsPrefix(dst, q)}
    IN  [q \in kept \cup {to(m) : m \in moved} |->
            IF IsPrefix(dst, q)
            THEN f[src \o SubSeq(q, Len(dst) + 1, Len(q))]
            ELSE f[q]]

(***************************************************************************)
(* Options.  o is the record of parsed arguments; regex = <<>> is "no      *)
(* pattern".                                                               *)
(***************************************************************************)

DEFAULT_PRUNE_DIRS ==
    { <<".", "g", "i", "t">>,
      <<"n", "o", "d", "e", "_", "m", "o", "d", "u", "l", "e", "s">>,
      <<".", "v", "e", "n", "v">>,
      <<"v", "e", "n", "v">>,
      <<"e", "n", "v">>,
      <<"_", "_", "p", "y", "c", "a", "c", "h", "e", "_", "_">>,
      <<"d", "i", "s", "t">>,
      <<"b", "u", "i", "l", "d">> }

\* main: without --include-files and --include-dirs both kinds are renamed.
IncludeFiles(o) == o.include_files \/ (~o.include_files /\ ~o.include_dirs)
IncludeDirs(o) == o.include_dirs \/ (~o.include_files /\ ~o.include_dirs)
PruneDirs(o) == DEFAULT_PRUNE_DIRS \cup o.prune_dirs

(***************************************************************************)
(* The plan builder                                                        *)
(***************************************************************************)

\* compute_new_name_for_path transforming the whole name of every entry.
compute_new_name_of_whole_name(f, o, p) ==
    apply_transformations(BaseName(p), o)

compute_new_name_for_path(f, o, p) ==
    IF is_file(f, p) /\ ~o.no_keep_extension
    THEN apply_transformations(PathStem(BaseName(p)), o) \o PathSuffix(BaseName(p))
    ELSE apply_transformations(BaseName(p), o)

\* prune_dirs_inplace keeping every directory name.
PruneKeepsAll(o, d) == TRUE

\* prune_dirs_inplace keeps the directory name d.
PruneKeeps(o, d) ==
    /\ d \notin PruneDirs(o)
    /\ o.include_hidden \/ ~(d # <<>> /\ d[1] = ".")

\* os.walk(root) visits the directory d: it descends from the root through
\* real directories (never through a link) that prune_dirs_inplace kept.
RECURSIVE Walked(_, _, _)
Walked(f, o, d) ==
    \/ d = <<>>
    \/ /\ d \in DOMAIN f
       /\ f[d].kind = "dir"
       /\ PruneKeeps(o, BaseName(d))
       /\ Walked(f, o, Parent(d))

\* The entries the non-recursive branch computes a name for.
ScannedFlat(f, o) ==
    {p \in DOMAIN f :
        /\ Len(p) = 1
        /\ ~(~o.include_hidden /\ is_hidden_path(p))
        /\ ~(is_dir(f, p) /\ ~IncludeDirs(o))
        /\ ~(is_file(f, p) /\ ~IncludeFiles(o))}

\* The entries the recursive branch looks at (before the root check): the
\* walk's files, and the walk's directories that prune_dirs_inplace kept.
SeenByWalk(f, o) ==
    {p \in DOMAIN f :
        /\ Walked(f, o, Parent(p))
        /\ ~(~o.include_hidden /\ is_hidden_path(p))
        /\ IF is_dir(f, p) THEN IncludeDirs(o) /\ PruneKeeps(o, BaseName(p))
           ELSE IncludeFiles(o)}

ScannedWalk(f, o) == {p \in SeenByWalk(f, o) : is_within_root(f, p)}

\* The warnings of build_rename_plans: the paths reported as outside the root.
WarnedPaths(f, o) ==
    IF o.recursive THEN {p \in SeenByWalk(f, o) : ~is_within_root(f, p)} ELSE {}

Scanned(f, o) == IF o.recursive THEN ScannedWalk(f, o) ELSE ScannedFlat(f, o)

\* The components pathlib parses the text s into: split at "/", the empty
\* components and the "." components dropped.
RECURSIVE SplitParts(_, _)
SplitParts(s, cur) ==
    LET done == IF cur = <<>> \/ cur = <<".">> THEN <<>> ELSE <<cur>>
    IN  IF s = <<>> THEN done
        ELSE IF Head(s) = "/" THEN done \o SplitParts(Tail(s), <<>>)
        ELSE SplitParts(Tail(s), Append(cur, Head(s)))

\* Path.with_name without its check: every "/" is accepted.
InvalidNameNever(name) == FALSE

\* Path.with_name(name) raises ValueError.
InvalidName(name) ==
    \/ name = <<>>
    \/ name[1] = "/"
    \/ name[Len(name)] = "/"
    \/ Len(SplitParts(name, <<>>)) # 1

\* Path.with_name
WithName(p, name) == Parent(p) \o <<name>>

\* build_rename_plans raises: with_name rejects the new name of an entry.
BuildRaises(f, o) ==
    \E p \in Scanned(f, o) :
        /\ compute_new_name_for_path(f, o, p) # BaseName(p)
        /\ InvalidName(compute_new_name_for_path(f, o, p))

\* PlanSet without the test new_name != p.name.
PlanSetOfEveryEntry(f, o) ==
    {[src |-> p, dst |-> WithName(p, compute_new_name_for_path(f, o, p))] :
        p \in Scanned(f, o)}

\* The plans of build_rename_plans, before they are sorted.
PlanSet(f, o) ==
    {[src |-> p, dst |-> WithName(p, compute_new_name_for_path(f, o, p))] :
        p \in {q \in Scanned(f, o) :
                 compute_new_name_for_path(f, o, q) # BaseName(q)}}

(***************************************************************************)
(* The execution order                                                     *)
(***************************************************************************)

\* str(path), without the root's own text (a prefix all paths share).
RECURSIVE PathStr(_)
PathStr(p) ==
    IF p = <<>> THEN <<>> ELSE <<"/">> \o Head(p) \o PathStr(Tail(p))

\* The key of the non-recursive branch's sort: str(x.src).lower().  It is
\* written as a triple so that one comparison serves both branches.
FlatKey(plan) == <<0, 0, Lower(PathStr(plan.src))>>

\* sort_key with the depth not negated: shallow directories first.
sort_key_shallow_first(f, plan) ==
    <<IF is_dir(f, plan.src) THEN 1 ELSE 0,
      Len(plan.src),
      Lower(PathStr(plan.src))>>

\* sort_key without the kind: depth and path only.
sort_key_without_kind(f, plan) ==
    <<0, 0 - Len(plan.src), Lower(PathStr(plan.src))>>

\* build_rename_plans.sort_key.  len(plan.src.parts) is taken from the root.
sort_key(f, plan) ==
    <<IF is_dir(f, plan.src) THEN 1 ELSE 0,
      0 - Len(plan.src),
      Lower(PathStr(plan.src))>>

\* The recursive branch sorting as the non-recursive one does.
PlanKeyFlatOnly(f, o, plan) == FlatKey(plan)

PlanKey(f, o, plan) == IF o.recursive THEN sort_key(f, plan) ELSE FlatKey(plan)

\* Python's < on the key tuples.
KeyLess(a, b) ==
    \/ a[1] < b[1]
    \/ a[1] = b[1] /\ a[2] < b[2]
    \/ a[1] = b[1] /\ a[2] = b[2] /\ StrLess(a[3], b[3])

\* One step of a stable sort: x goes behind every element that is not
\* greater than it.
RECURSIVE InsertByKey(_, _, _, _)
InsertByKey(f, o, sorted, x) ==
    IF sorted = <<>> THEN <<x>>
    ELSE IF KeyLess(PlanKey(f, o, x), PlanKey(f, o, Head(sorted)))
         THEN <<x>> \o sorted
    ELSE <<Head(sorted)>> \o InsertByKey(f, o, Tail(sorted), x)

\* list.sort(key=...): stable, so plans with equal keys keep the order in
\* which they were appended.
RECURSIVE SortPlans(_, _, _)
SortPlans(f, o, list) ==
    IF list = <<>> THEN <<>>
    ELSE InsertByKey(f, o, SortPlans(f, o, SubSeq(list, 1, Len(list) - 1)),
                     list[Len(list)])

\* All the orders in which a set can be listed.
RECURSIVE Listings(_)
Listings(S) ==
    IF S = {} THEN {<<>>}
    ELSE UNION {{<<x>> \o t : t \in Listings(S \ {x})} : x \in S}

\* The lists build_rename_plans can return.  Path.iterdir and os.walk list
\* a directory in an order the operating system chooses, so the plans are
\* appended in an order the program does not control; the sort then fixes
\* the order of all plans but those with equal keys.  (Every listing of the
\* plans is taken as a possible order of appending.)
build_rename_plans_unsorted(f, o) == Listings(PlanSet(f, o))

build_rename_plans(f, o) ==
    {SortPlans(f, o, list) : list \in Listings(PlanSet(f, o))}

(***************************************************************************)
(* The conflict detector                                                   *)
(***************************************************************************)

\* detect_conflicts after the first k plans: [errors, seen].  An error is
\* recorded as [type, at, src, dst], at being the plan's position.
RECURSIVE DetectLoop(_, _, _)
DetectLoop(f, plans, k) ==
    IF k = 0 THEN [errors |-> <<>>, seen |-> <<>>]
    ELSE
      LET prev == DetectLoop(f, plans, k - 1)
          plan == plans[k]
          dst_key == Resolve(f, plan.dst)
          src_key == Resolve(f, plan.src)
          known == {j \in 1..Len(prev.seen) : prev.seen[j][1] = dst_key}
          clash == \E j \in known : Resolve(f, prev.seen[j][2]) # src_key
          e1 == IF clash
                THEN <<[type |-> "collision", at |-> k,
                        src |-> plan.src, dst |-> plan.dst]>>
                ELSE <<>>
          seen1 == IF clash THEN prev.seen
                   ELSE IF known # {}
                        THEN [j \in 1..Len(prev.seen) |->
                                IF j \in known THEN <<dst_key, plan.src>>
                                ELSE prev.seen[j]]
                   ELSE Append(prev.seen, <<dst_key, plan.src>>)
          e2 == IF Exists(f, plan.dst) /\ dst_key # src_key
                THEN <<[type |-> "exists", at |-> k,
                        src |-> plan.src, dst |-> plan.dst]>>
                ELSE <<>>
      IN  [errors |-> prev.errors \o e1 \o e2, seen |-> seen1]

detect_conflicts(f, plans) == DetectLoop(f, plans, Len(plans)).errors

(***************************************************************************)
(* The run: main                                                           *)
(***************************************************************************)

VARIABLES
    args,       \* the parsed command line
    fs,         \* the filesystem below the root
    ro,         \* the inos of the directories that may not be written to
    fs0,        \* the filesystem when main was called (history)
    pc,         \* where main is
    plans,      \* the list build_rename_plans returned
    warnings,   \* the paths build_rename_plans warned about
    conflicts,  \* the list detect_conflicts returned
    idx,        \* execute_plans: the position of the next plan
    ok,         \* execute_plans: renames that succeeded
    err,        \* execute_plans: renames that raised
    outcomes,   \* per attempted rename, in order: [at, ok] (history)
    outcome,    \* how main ended
    rc,         \* main's return value, -1 while it runs
    call,       \* a function called on its own: its name and its inputs
    result,     \* what that call returned
    items,      \* limpa_repo, empacotador: the items collected
    ok_count,   \* limpa_repo main: removals that succeeded
    err_count,  \* limpa_repo main: removals that failed
    pending,    \* empacotador collect_files: the files os.walk has yet to yield
    total_bytes,\* empacotador collect_files: the running sum of sizes
    skipped     \* empacotador collect_files: the files skipped, with the cause

\* What only limpa_repo and empacotador use.
otherVars == <<items, ok_count, err_count, pending, total_bytes, skipped>>

vars == <<args, fs, ro, fs0, pc, plans, warnings, conflicts, idx, ok, err,
          outcomes, outcome, rc, call, result, items, ok_count, err_count,
          pending, total_bytes, skipped>>

\* limpa_repo and empacotador are not running.
OtherIdle ==
    /\ items = <<>>
    /\ ok_count = 0
    /\ err_count = 0
    /\ pending = <<>>
    /\ total_bytes = 0
    /\ skipped = <<>>

\* ---- the bounded inputs ------------------------------------------------

MaxEntries == 3
MaxFlags == 2

TopNames == <<<<"A">>, <<"a">>, <<"B">>>>
SubNames == <<<<"A">>, <<"a">>>>

Range(seq) == {seq[k] : k \in 1..Len(seq)}
IndexOf(seq, x) == CHOOSE k \in 1..Len(seq) : seq[k] = x

\* The paths a tree is drawn from: three levels below the root.
PathUniverse ==
    {<<n>> : n \in Range(TopNames)}
      \cup {<<d, m>> : d \in Range(TopNames), m \in Range(SubNames)}
      \cup {<<d, m, n>> : d \in Range(TopNames),
                          m \in Range(SubNames), n \in Range(SubNames)}

\* One ino per path of the universe (the root has ino 0).
RECURSIVE InoOf(_)
InoOf(p) ==
    IF Len(p) = 1 THEN IndexOf(TopNames, p[1])
    ELSE InoOf(Parent(p)) * (Len(TopNames) + Len(SubNames) + 1)
           + IndexOf(SubNames, BaseName(p))

PathSets ==
    {P \in SUBSET PathUniverse :
        /\ Cardinality(P) <= MaxEntries
        /\ \A p \in P : Len(p) > 1 => Parent(p) \in P}

Shapes ==
    [kind : {"file", "dir"}, target : {<<>>}]
      \cup [kind : {"link"}, target : Range(TopNames) \cup Range(SubNames)]

\* A tree over the paths P: what has children is a directory; a link points
\* to a sibling name other than its own, and not to another link.
TreesOver(P) ==
    {t \in [P -> Shapes] :
        \A p \in P :
          /\ Len(p) > 1 => t[Parent(p)].kind = "dir"
          /\ t[p].kind = "link" =>
               /\ t[p].target # BaseName(p)
               /\ WithName(p, t[p].target) \in PathUniverse
               /\ WithName(p, t[p].target) \in P =>
                    t[WithName(p, t[p].target)].kind # "link"}

Trees ==
    UNION {{[p \in P |-> [kind |-> t[p].kind, target |-> t[p].target,
                          ino |-> InoOf(p)]] : t \in TreesOver(P)} :
           P \in PathSets}

DirInos(f) == {0} \cup {f[p].ino : p \in {q \in DOMAIN f : f[q].kind = "dir"}}

NoArgs ==
    [recursive |-> FALSE, dry_run |-> FALSE, yes |-> FALSE,
     include_hidden |-> FALSE, include_files |-> FALSE, include_dirs |-> FALSE,
     spaces_to_underscore |-> FALSE, slugify |-> FALSE, lower |-> FALSE,
     prefix |-> <<>>, suffix |-> <<>>, regex |-> <<>>, to |-> <<>>,
     no_keep_extension |-> FALSE, prune_dirs |-> {}]

\* The command lines: each option absent or given, the texts drawn from
\* small sets; "(" is a pattern re.compile rejects, "p/" a prefix that makes
\* a name Path.with_name rejects.
ArgSets ==
    [recursive : BOOLEAN, dry_run : BOOLEAN, yes : BOOLEAN,
     include_hidden : BOOLEAN, include_files : BOOLEAN, include_dirs : BOOLEAN,
     spaces_to_underscore : BOOLEAN, slugify : BOOLEAN, lower : BOOLEAN,
     prefix : {<<>>, <<"p">>, <<"p", "/">>}, suffix : {<<>>, <<"1">>},
     regex : {<<>>, <<"B">>, <<"(">>}, to : {<<>>, <<"A">>},
     no_keep_extension : BOOLEAN, prune_dirs : {{}}]

\* No function is called on its own.
NoCall == [fn |-> "none"]

\* How many options of the command line a differs from the empty one.
FlagCount(a) == Cardinality({k \in DOMAIN a : a[k] # NoArgs[k]})

\* main is called: on one of the command lines, in one of the trees, with
\* at most one directory that may not be written to.
InitRun(trees) ==
    /\ args \in {a \in ArgSets : FlagCount(a) <= MaxFlags}
    /\ fs \in trees
    /\ ro \in {{}} \cup {{d} : d \in DirInos(fs)}
    /\ fs0 = fs
    /\ pc = "start"
    /\ plans = <<>>
    /\ warnings = {}
    /\ conflicts = <<>>
    /\ idx = 1
    /\ ok = 0
    /\ err = 0
    /\ outcomes = <<>>
    /\ outcome = "running"
    /\ rc = -1
    /\ call = NoCall
    /\ result = <<>>
    /\ OtherIdle

Init == InitRun(Trees)

\* ---- trees with hidden names, pruned names, extensions and links that
\* ---- leave the root

MaxScanEntries == 2

ScanTop ==
    <<<<".", "a">>, <<"e", "n", "v">>, <<"A">>,
      <<"a", ".", "T", "X", "T">>, <<"a", ".", "t", "x", "t">>>>
ScanSub == <<<<"A">>>>

\* Two levels below the root.
ScanUniverse ==
    {<<n>> : n \in Range(ScanTop)}
      \cup {<<d, m>> : d \in Range(ScanTop), m \in Range(ScanSub)}

ScanIno(p) ==
    IF Len(p) = 1 THEN IndexOf(ScanTop, p[1])
    ELSE Len(ScanTop) * IndexOf(ScanSub, p[2]) + IndexOf(ScanTop, p[1])

ScanPathSets ==
    {P \in SUBSET ScanUniverse :
        /\ Cardinality(P) <= MaxScanEntries
        /\ \A p \in P : Len(p) > 1 => Parent(p) \in P}

\* A link here points to a regular file outside the root.
ScanShapes ==
    [kind : {"file", "dir"}, target : {<<>>}]
      \cup [kind : {"link"}, target : {OutsideName}]

ScanTrees ==
    UNION {{[p \in P |-> [kind |-> t[p].kind, target |-> t[p].target,
                          ino |-> ScanIno(p)]] :
              t \in {u \in [P -> ScanShapes] :
                       \A p \in P : Len(p) > 1 => u[Parent(p)].kind = "dir"}} :
           P \in ScanPathSets}

InitScan == InitRun(ScanTrees)

\* ---- main, step by step --------------------------------------------------

Return(code, how) ==
    /\ pc' = "done"
    /\ rc' = code
    /\ outcome' = how

\* main: the pattern does not compile.
ConfigError ==
    /\ pc = "start"
    /\ args.regex # <<>> /\ ReCompileFails(args.regex)
    /\ Return(2, "config_error")
    /\ UNCHANGED <<call, result>>
    /\ UNCHANGED otherVars
    /\ UNCHANGED <<args, fs, ro, fs0, plans, warnings, conflicts, idx, ok, err,
                   outcomes>>

\* main: build_rename_plans raises ValueError, which nothing catches: main
\* does not return.  The warnings printed before it depend on the order of
\* the enumeration.
Raise ==
    /\ pc = "start"
    /\ ~(args.regex # <<>> /\ ReCompileFails(args.regex))
    /\ BuildRaises(fs, args)
    /\ warnings' \in SUBSET WarnedPaths(fs, args)
    /\ pc' = "raised"
    /\ outcome' = "exception"
    /\ UNCHANGED <<call, result>>
    /\ UNCHANGED otherVars
    /\ UNCHANGED <<args, fs, ro, fs0, plans, conflicts, idx, ok, err, outcomes,
                   rc>>

\* main: build_rename_plans returns no plan.
NothingToRename ==
    /\ pc = "start"
    /\ ~(args.regex # <<>> /\ ReCompileFails(args.regex))
    /\ ~BuildRaises(fs, args)
    /\ PlanSet(fs, args) = {}
    /\ warnings' = WarnedPaths(fs, args)
    /\ Return(0, "nothing")
    /\ UNCHANGED <<call, result>>
    /\ UNCHANGED otherVars
    /\ UNCHANGED <<args, fs, ro, fs0, plans, conflicts, idx, ok, err, outcomes>>

\* main: build_rename_plans returns plans.
Plan ==
    /\ pc = "start"
    /\ ~(args.regex # <<>> /\ ReCompileFails(args.regex))
    /\ ~BuildRaises(fs, args)
    /\ PlanSet(fs, args) # {}
    /\ plans' \in build_rename_plans(fs, args)
    /\ warnings' = WarnedPaths(fs, args)
    /\ pc' = "planned"
    /\ UNCHANGED <<call, result>>
    /\ UNCHANGED otherVars
    /\ UNCHANGED <<args, fs, ro, fs0, conflicts, idx, ok, err, outcomes,
                   outcome, rc>>

\* main: detect_conflicts reports conflicts.
AbortOnConflicts ==
    /\ pc = "planned"
    /\ detect_conflicts(fs, plans) # <<>>
    /\ conflicts' = detect_conflicts(fs, plans)
    /\ Return(3, "aborted")
    /\ UNCHANGED <<call, result>>
    /\ UNCHANGED otherVars
    /\ UNCHANGED <<args, fs, ro, fs0, plans, warnings, idx, ok, err, outcomes>>

\* Validate without the check of the report.
ValidateIgnoringConflicts ==
    /\ pc = "planned"
    /\ conflicts' = detect_conflicts(fs, plans)
    /\ pc' = "validated"
    /\ UNCHANGED <<call, result>>
    /\ UNCHANGED otherVars
    /\ UNCHANGED <<args, fs, ro, fs0, plans, warnings, idx, ok, err, outcomes,
                   outcome, rc>>

\* main: detect_conflicts reports nothing; the plan is shown.
Validate ==
    /\ pc = "planned"
    /\ detect_conflicts(fs, plans) = <<>>
    /\ conflicts' = <<>>
    /\ pc' = "validated"
    /\ UNCHANGED <<call, result>>
    /\ UNCHANGED otherVars
    /\ UNCHANGED <<args, fs, ro, fs0, plans, warnings, idx, ok, err, outcomes,
                   outcome, rc>>

\* main: --dry-run.
DryRun ==
    /\ pc = "validated"
    /\ args.dry_run
    /\ Return(0, "dry_run")
    /\ UNCHANGED <<call, result>>
    /\ UNCHANGED otherVars
    /\ UNCHANGED <<args, fs, ro, fs0, plans, warnings, conflicts, idx, ok, err,
                   outcomes>>

\* main: the user does not answer "sim".
Cancel ==
    /\ pc = "validated"
    /\ ~args.dry_run /\ ~args.yes
    /\ Return(1, "cancelled")
    /\ UNCHANGED <<call, result>>
    /\ UNCHANGED otherVars
    /\ UNCHANGED <<args, fs, ro, fs0, plans, warnings, conflicts, idx, ok, err,
                   outcomes>>

\* Confirm without the --dry-run return before it.
ConfirmIgnoringDryRun ==
    /\ pc = "validated"
    /\ pc' = "executing"
    /\ idx' = 1 /\ ok' = 0 /\ err' = 0
    /\ UNCHANGED <<call, result>>
    /\ UNCHANGED otherVars
    /\ UNCHANGED <<args, fs, ro, fs0, plans, warnings, conflicts, outcomes,
                   outcome, rc>>

\* main: --yes, or the user answers "sim": execute_plans is called.
Confirm ==
    /\ pc = "validated"
    /\ ~args.dry_run
    /\ pc' = "executing"
    /\ idx' = 1 /\ ok' = 0 /\ err' = 0
    /\ UNCHANGED <<call, result>>
    /\ UNCHANGED otherVars
    /\ UNCHANGED <<args, fs, ro, fs0, plans, warnings, conflicts, outcomes,
                   outcome, rc>>

\* execute_plans: one turn of the loop, the rename succeeds.
RenameOk ==
    /\ pc = "executing"
    /\ idx <= Len(plans)
    /\ ~RenameFails(fs, ro, plans[idx].src, plans[idx].dst)
    /\ fs' = Rename(fs, plans[idx].src, plans[idx].dst)
    /\ ok' = ok + 1
    /\ outcomes' = Append(outcomes, [at |-> idx, ok |-> TRUE])
    /\ idx' = idx + 1
    /\ UNCHANGED <<call, result>>
    /\ UNCHANGED otherVars
    /\ UNCHANGED <<args, ro, fs0, pc, plans, warnings, conflicts, err, outcome,
                   rc>>

\* RenameErr leaving the loop at the first failure.
RenameErrAborts ==
    /\ pc = "executing"
    /\ idx <= Len(plans)
    /\ RenameFails(fs, ro, plans[idx].src, plans[idx].dst)
    /\ err' = err + 1
    /\ outcomes' = Append(outcomes, [at |-> idx, ok |-> FALSE])
    /\ idx' = Len(plans) + 1
    /\ UNCHANGED <<call, result>>
    /\ UNCHANGED otherVars
    /\ UNCHANGED <<args, fs, ro, fs0, pc, plans, warnings, conflicts, ok,
                   outcome, rc>>

\* execute_plans: one turn of the loop, the rename raises.
RenameErr ==
    /\ pc = "executing"
    /\ idx <= Len(plans)
    /\ RenameFails(fs, ro, plans[idx].src, plans[idx].dst)
    /\ err' = err + 1
    /\ outcomes' = Append(outcomes, [at |-> idx, ok |-> FALSE])
    /\ idx' = idx + 1
    /\ UNCHANGED <<call, result>>
    /\ UNCHANGED otherVars
    /\ UNCHANGED <<args, fs, ro, fs0, pc, plans, warnings, conflicts, ok,
                   outcome, rc>>

\* Finish returning the success status whatever execute_plans counted.
FinishAlwaysZero ==
    /\ pc = "executing"
    /\ idx > Len(plans)
    /\ Return(0, "completed")
    /\ UNCHANGED <<call, result>>
    /\ UNCHANGED otherVars
    /\ UNCHANGED <<args, fs, ro, fs0, plans, warnings, conflicts, idx, ok, err,
                   outcomes>>

\* execute_plans returns; main prints the summary and returns.
Finish ==
    /\ pc = "executing"
    /\ idx > Len(plans)
    /\ Return(IF err = 0 THEN 0 ELSE 4, "completed")
    /\ UNCHANGED <<call, result>>
    /\ UNCHANGED otherVars
    /\ UNCHANGED <<args, fs, ro, fs0, plans, warnings, conflicts, idx, ok, err,
                   outcomes>>

Next ==
    \/ ConfigError
    \/ Raise
    \/ NothingToRename
    \/ Plan
    \/ AbortOnConflicts
    \/ Validate
    \/ DryRun
    \/ Cancel
    \/ Confirm
    \/ RenameOk
    \/ RenameErr
    \/ Finish

Spec == Init /\ [][Next]_vars

\* The same program on the trees with hidden, pruned and linked entries.
SpecScan == InitScan /\ [][Next]_vars

(***************************************************************************)
(* The functions of the name transformer, each called on its own           *)
(***************************************************************************)

MaxNameLen == 3

NameChars == {"A", "a", " ", ".", "!"}

\* The names of at most MaxNameLen characters.
RECURSIVE NamesUpTo(_)
NamesUpTo(n) ==
    IF n = 0 THEN {<<>>}
    ELSE NamesUpTo(n - 1)
           \cup {Append(s, ch) : s \in NamesUpTo(n - 1), ch \in NameChars}

\* "." and ".." are not names of entries.
ShortNames == NamesUpTo(MaxNameLen) \ {<<>>, <<".">>, <<".", ".">>}

\* The file names of the examples.
MyReportPDF == <<"M", "y", " ", "R", "e", "p", "o", "r", "t", ".", "P", "D", "F">>
RelatorioFinalTxt ==
    <<"R", "e", "l", "a", "t", "o'", "r", "i", "o", " ",
      "F", "i", "n", "a", "l", "!", "!", ".", "t", "x", "t">>

\* Each of the short names as it is, and with the extension ".t"; and the
\* examples.
NamePool ==
    ShortNames \cup {s \o <<".", "t">> : s \in ShortNames}
      \cup {MyReportPDF, RelatorioFinalTxt}

\* The transformation options: the prefix and the suffix hold an upper case
\* letter, a space and a character no slug keeps; " " is a suffix of
\* whitespace only; "(" is a pattern re.compile rejects.
NameArgSets ==
    {[NoArgs EXCEPT !.slugify = x.slugify, !.lower = x.lower,
                    !.spaces_to_underscore = x.spaces_to_underscore,
                    !.prefix = x.prefix, !.suffix = x.suffix,
                    !.regex = x.sub[1], !.to = x.sub[2],
                    !.no_keep_extension = x.no_keep_extension] :
       x \in [slugify : BOOLEAN, lower : BOOLEAN,
              spaces_to_underscore : BOOLEAN,
              prefix : {<<>>, <<"P", " ", "!">>},
              suffix : {<<>>, <<" ">>, <<"S", " ", "!">>},
              sub : {<<<<>>, <<>>>>, <<<<"A">>, <<>>>>,
                     <<<<"A">>, <<"B">>>>, <<<<"(">>, <<>>>>},
              no_keep_extension : BOOLEAN]}

\* The tree that holds one entry.
OneEntry(name, kind) ==
    <<name>> :> [kind |-> kind, target |-> <<>>, ino |-> 1]

\* One function of the transformer is about to be called on a name.
InitCall(argsets, names) ==
    /\ args \in argsets
    /\ call \in {[fn |-> "pending", name |-> n] : n \in names}
    /\ result = <<>>
    /\ fs = <<>>
    /\ ro = {}
    /\ fs0 = fs
    /\ pc = "start"
    /\ plans = <<>>
    /\ warnings = {}
    /\ conflicts = <<>>
    /\ idx = 1
    /\ ok = 0
    /\ err = 0
    /\ outcomes = <<>>
    /\ outcome = "running"
    /\ rc = -1
    /\ OtherIdle

InitNames == InitCall(NameArgSets, NamePool)

CallSlugifyName ==
    /\ call.fn = "pending"
    /\ \E keep_dots \in BOOLEAN :
          /\ call' = [fn |-> "slugify_name", name |-> call.name,
                       keep_dots |-> keep_dots]
          /\ result' = slugify_name(call.name, args.lower,
                                     args.spaces_to_underscore, keep_dots)
    /\ UNCHANGED <<args, fs, ro, fs0, pc, plans, warnings, conflicts, idx, ok,
                   err, outcomes, outcome, rc>>
    /\ UNCHANGED otherVars

CallApplyTransformations ==
    /\ call.fn = "pending"
    /\ call' = [fn |-> "apply_transformations", name |-> call.name]
    /\ result' = apply_transformations(call.name, args)
    /\ UNCHANGED <<args, fs, ro, fs0, pc, plans, warnings, conflicts, idx, ok,
                   err, outcomes, outcome, rc>>
    /\ UNCHANGED otherVars

\* compute_new_name_for_path on a file or on a directory of that name.
CallComputeNewName ==
    /\ call.fn = "pending"
    /\ \E kind \in {"file", "dir"} :
          /\ call' = [fn |-> "compute_new_name_for_path", name |-> call.name,
                       kind |-> kind]
          /\ result' = compute_new_name_for_path(OneEntry(call.name, kind),
                                                  args, <<call.name>>)
    /\ UNCHANGED <<args, fs, ro, fs0, pc, plans, warnings, conflicts, idx, ok,
                   err, outcomes, outcome, rc>>
    /\ UNCHANGED otherVars

NextNames ==
    \/ CallSlugifyName
    \/ CallApplyTransformations
    \/ CallComputeNewName

SpecNames == InitNames /\ [][NextNames]_vars

\* ---- slugify_name alone, on every string of a larger alphabet

MaxSlugLen == 4

SlugChars == {"A", "a", "1", " ", ".", "!", "_", "-", "e'"}

RECURSIVE StringsUpTo(_)
StringsUpTo(n) ==
    IF n = 0 THEN {<<>>}
    ELSE StringsUpTo(n - 1)
           \cup {Append(s, ch) : s \in StringsUpTo(n - 1), ch \in SlugChars}

SlugArgSets ==
    {[NoArgs EXCEPT !.lower = l, !.spaces_to_underscore = u] :
       l \in BOOLEAN, u \in BOOLEAN}

InitSlug == InitCall(SlugArgSets, StringsUpTo(MaxSlugLen))

NextSlug == CallSlugifyName

SpecSlug == InitSlug /\ [][NextSlug]_vars

(***************************************************************************)
(* Properties                                                              *)
(***************************************************************************)

Inos(f) == {f[p].ino : p \in DOMAIN f}
Executed == outcome = "completed"
StrictlyBeneath(p, q) == IsPrefix(q, p) /\ p # q

\* C1: when the conflict report is empty and execute_plans has run the plans
\* in order, nothing interfering (every directory writable), no rename has
\* overwritten an entry: as many entries as before, the same entries, and
\* every planned source entry now carries its own destination name, no two of
\* them at one path.
C1_NoRenameOverwrites ==
    (Executed /\ ro = {}) =>
        /\ Cardinality(DOMAIN fs) = Cardinality(DOMAIN fs0)
        /\ Inos(fs) = Inos(fs0)
        /\ \A k \in 1..Len(plans) :
             \E q \in DOMAIN fs :
               /\ fs[q].ino = fs0[plans[k].src].ino
               /\ BaseName(q) = BaseName(plans[k].dst)

\* C2: two plans with different source paths and one canonical destination:
\* the report holds a destination-collision message for the later plan.
C2_CollisionReported ==
    pc \in {"planned", "validated", "executing", "done"} =>
        \A i, j \in 1..Len(plans) :
            (/\ i < j
             /\ plans[i].src # plans[j].src
             /\ Resolve(fs0, plans[i].dst) = Resolve(fs0, plans[j].dst))
            => \E e \in Range(detect_conflicts(fs0, plans)) :
                   e.type = "collision" /\ e.at = j

\* C3: a plan whose destination exists and is not the plan's own source
\* entry gets a target-exists message; a plan whose destination denotes the
\* same path as its source gets none.
C3_TargetExistsReported ==
    pc \in {"planned", "validated", "executing", "done"} =>
        \A k \in 1..Len(plans) :
            LET reported == \E e \in Range(detect_conflicts(fs0, plans)) :
                                e.type = "exists" /\ e.at = k
            IN  /\ (plans[k].dst \in DOMAIN fs0 /\ plans[k].dst # plans[k].src)
                     => reported
                /\ Resolve(fs0, plans[k].dst) = Resolve(fs0, plans[k].src)
                     => ~reported

\* C4: a non-empty conflict report ends the run with status 3 and without
\* any rename, whatever --dry-run and --yes say.
C4_ConflictsAbortRun ==
    (pc # "start" /\ plans # <<>> /\ detect_conflicts(fs0, plans) # <<>>) =>
        /\ fs = fs0
        /\ outcomes = <<>>
        /\ pc \in {"planned", "done"}
        /\ pc = "done" => (rc = 3 /\ outcome = "aborted")

C4_Witness ==
    /\ outcome = "aborted"
    /\ conflicts # <<>>
    /\ args.yes \/ args.dry_run

\* C5: when execute_plans comes to a plan, the plan's source path exists,
\* and no rename done earlier in the run was of a path the source lies in.
C5_SourceStillThere ==
    (pc = "executing" /\ idx <= Len(plans)) =>
        /\ plans[idx].src \in DOMAIN fs
        /\ \A k \in 1..Len(outcomes) :
             outcomes[k].ok => ~IsPrefix(plans[k].src, plans[idx].src)

C5_Witness ==
    /\ pc = "executing"
    /\ idx = 2 /\ idx <= Len(plans)
    /\ outcomes[1].ok
    /\ StrictlyBeneath(plans[1].src, plans[2].src)
    /\ plans[2].src \in DOMAIN fs

\* C6: a plan whose source lies strictly beneath another plan's source comes
\* before it in the list, and is executed before it.
C6_DescendantFirst ==
    \A i, j \in 1..Len(plans) :
        StrictlyBeneath(plans[i].src, plans[j].src) =>
            /\ i < j
            /\ j <= Len(outcomes) =>
                 (outcomes[i].at = i /\ outcomes[j].at = j)

C6_Witness ==
    /\ Executed
    /\ \E i, j \in 1..Len(plans) :
         /\ StrictlyBeneath(plans[i].src, plans[j].src)
         /\ outcomes[i].ok /\ outcomes[j].ok

FilesBeforeDirs ==
    \A i, j \in 1..Len(plans) :
        (is_dir(fs0, plans[i].src) /\ ~is_dir(fs0, plans[j].src)) => j < i

\* C7 as stated: in both modes every file plan precedes every directory plan.
C7_FilesFirstBothModes == pc = "planned" => FilesBeforeDirs

\* C7 amended: in recursive mode every file plan precedes every directory
\* plan; in non-recursive mode the list is in ascending case-insensitive
\* order of the source path, whatever the kinds.
C7_FilesFirstRecursive ==
    pc = "planned" =>
        /\ args.recursive => FilesBeforeDirs
        /\ ~args.recursive =>
             \A i, j \in 1..Len(plans) :
                 i < j => ~StrLess(Lower(PathStr(plans[j].src)),
                                   Lower(PathStr(plans[i].src)))

C7_Witness ==
    /\ pc = "planned"
    /\ args.recursive
    /\ \E i, j \in 1..Len(plans) :
         /\ ~is_dir(fs0, plans[i].src) /\ is_dir(fs0, plans[j].src)
         /\ Len(plans[j].src) > Len(plans[i].src)

\* The directory plans of a list, in its order.
DirPlans(f, list) ==
    LET IsDirPlan(plan) == is_dir(f, plan.src) IN SelectSeq(list, IsDirPlan)

DeeperThenLexicographic(d) ==
    \A i, j \in 1..Len(d) :
        i < j =>
          /\ Len(d[i].src) >= Len(d[j].src)
          /\ Len(d[i].src) = Len(d[j].src) =>
               ~StrLess(Lower(PathStr(d[j].src)), Lower(PathStr(d[i].src)))

\* C8 as stated: among the directory plans of recursive mode deeper sources
\* come first, equal depths are in ascending case-insensitive order, and the
\* order is the same whatever order the walk listed the entries in.
C8_OrderFixed ==
    (pc = "planned" /\ args.recursive) =>
        /\ DeeperThenLexicographic(DirPlans(fs0, plans))
        /\ \A other \in build_rename_plans(fs0, args) :
             DirPlans(fs0, other) = DirPlans(fs0, plans)

\* C8 amended: ... and two lists the walk's order can lead to differ only
\* where both hold plans whose source paths are equal but for letter case.
C8_OrderFixedUpToCase ==
    (pc = "planned" /\ args.recursive) =>
        /\ DeeperThenLexicographic(DirPlans(fs0, plans))
        /\ \A other \in build_rename_plans(fs0, args) :
             LET d1 == DirPlans(fs0, plans)
                 d2 == DirPlans(fs0, other)
             IN  /\ Len(d1) = Len(d2)
                 /\ \A k \in 1..Len(d1) :
                      d1[k] # d2[k] =>
                        Lower(PathStr(d1[k].src)) = Lower(PathStr(d2[k].src))

C8_Witness ==
    /\ pc = "planned" /\ args.recursive
    /\ LET d == DirPlans(fs0, plans)
       IN  /\ \E i, j \in 1..Len(d) : Len(d[i].src) > Len(d[j].src)
           /\ \E i, j \in 1..Len(d) :
                /\ i < j /\ Len(d[i].src) = Len(d[j].src)
                /\ StrLess(Lower(PathStr(d[i].src)), Lower(PathStr(d[j].src)))

C10_EveryPlanAttemptedOnce ==
    /\ Len(outcomes) = idx - 1
    /\ \A k \in 1..Len(outcomes) : outcomes[k].at = k
    /\ ok = Cardinality({k \in 1..Len(outcomes) : outcomes[k].ok})
    /\ err = Cardinality({k \in 1..Len(outcomes) : ~outcomes[k].ok})
    /\ Executed => (Len(outcomes) = Len(plans) /\ ok + err = Len(plans))

C10_Witness ==
    /\ Executed
    /\ \E k \in 1..(Len(outcomes) - 1) :
         ~outcomes[k].ok /\ outcomes[k + 1].ok

\* C11: main returns 0 only if no rename failed; when execute_plans ran and
\* at least one rename failed it returns 4, which is not the status of a run
\* aborted on conflicts (3), a run that attempted no rename at all.
C11_ExitStatus ==
    pc = "done" =>
      /\ rc = 0 => \A k \in 1..Len(outcomes) : outcomes[k].ok
      /\ (Executed /\ \E k \in 1..Len(outcomes) : ~outcomes[k].ok) => rc = 4
      /\ outcome = "aborted" => rc = 3 /\ outcomes = <<>>
      /\ rc = 3 => outcomes = <<>>
      /\ rc = 4 => Executed /\ outcomes # <<>>

C11_Witness ==
    /\ pc = "done"
    /\ rc = 4
    /\ \E k \in 1..Len(outcomes) : ~outcomes[k].ok
    /\ \E k \in 1..Len(outcomes) : outcomes[k].ok

\* The entries build_rename_plans considers once its filters on hidden names
\* and kinds have passed.
Candidates(f, o) == IF o.recursive THEN SeenByWalk(f, o) ELSE ScannedFlat(f, o)

\* build_rename_plans has returned.
Built == pc \notin {"start", "raised"} /\ outcome # "config_error"

PlanSources == {plans[k].src : k \in 1..Len(plans)}

\* C12: in recursive and in non-recursive mode alike every plan's source
\* resolves inside the root, and every candidate that resolves outside the
\* root is left out of the plans and is warned about.
C12_SourcesInsideRoot ==
    Built =>
      /\ \A p \in PlanSources : is_within_root(fs0, p)
      /\ \A p \in Candidates(fs0, args) :
            ~is_within_root(fs0, p) => p \notin PlanSources /\ p \in warnings

\* The name is excluded: it is in the prune-name list, or it is hidden and
\* include_hidden is off.
ExcludedName(o, name) ==
    \/ name \in PruneDirs(o)
    \/ ~o.include_hidden /\ name # <<>> /\ name[1] = "."

HiddenName(name) == name # <<>> /\ name[1] = "."

\* C13 (as stated): in both modes no plan's source has an excluded name, and
\* none lies beneath a directory with an excluded name.
C13_NoExcludedSource ==
    Built =>
      \A p \in PlanSources :
        \A k \in 1..Len(p) : ~ExcludedName(args, p[k])

\* C13 (amended): the hidden-name rule holds in both modes and for every
\* kind of entry; the prune-name list is applied in recursive mode only, and
\* to directories only: no plan's source is a directory with a pruned name
\* or lies beneath one.
C13_HiddenAndPrunedSkipped ==
    Built =>
      \A p \in PlanSources :
        \A k \in 1..Len(p) :
          /\ ~args.include_hidden => ~HiddenName(p[k])
          /\ (args.recursive /\ is_dir(fs0, SubSeq(p, 1, k)))
               => p[k] \notin PruneDirs(args)

\* A recursive run that planned something, over a tree with a directory of
\* a pruned name that the options would rename.
C13_Witness ==
    /\ Built
    /\ args.recursive
    /\ plans # <<>>
    /\ \E p \in DOMAIN fs0 :
          /\ is_dir(fs0, p)
          /\ BaseName(p) \in PruneDirs(args)
          /\ compute_new_name_for_path(fs0, args, p) # BaseName(p)

\* The components the operating system reads in the path p, whose names may
\* hold a "/".
RECURSIVE OsComponents(_)
OsComponents(p) ==
    IF p = <<>> THEN <<>>
    ELSE OsComponents(Parent(p)) \o SplitParts(BaseName(p), <<>>)

\* C14: every plan's destination has the parent directory of its source:
\* only the final path component changes, whatever prefix, suffix or
\* replacement text the user gave.
C14_SameParent ==
    Built =>
      \A k \in 1..Len(plans) :
        LET d == OsComponents(plans[k].dst)
        IN  /\ Len(d) = Len(plans[k].src)
            /\ SubSeq(d, 1, Len(d) - 1) = Parent(plans[k].src)

\* A plan below the top level whose new name holds text the user gave.
C14_Witness ==
    /\ Built
    /\ \E k \in 1..Len(plans) :
          /\ Len(plans[k].src) > 1
          /\ args.prefix # <<>>
          /\ StartsWith(BaseName(plans[k].dst), args.prefix)

\* C15: build_rename_plans emits a plan for a selected entry if and only if
\* its computed new name differs from its current name: no plan has its
\* destination equal to its source, an entry whose name is left unchanged has
\* no plan, and an entry whose name changes has exactly one.
C15_PlanIffNameChanges ==
    Built =>
      /\ \A k \in 1..Len(plans) : plans[k].dst # plans[k].src
      /\ PlanSources \subseteq Scanned(fs0, args)
      /\ Cardinality(PlanSources) = Len(plans)
      /\ \A p \in Scanned(fs0, args) :
            p \in PlanSources
              <=> compute_new_name_for_path(fs0, args, p) # BaseName(p)

\* A scan with an entry that is planned and an entry that keeps its name.
C15_Witness ==
    /\ Built
    /\ plans # <<>>
    /\ \E p \in Scanned(fs0, args) :
          compute_new_name_for_path(fs0, args, p) = BaseName(p)

\* The root holds the two files "a.TXT" and "a.txt" and nothing else.
UpperExt == <<<<"a", ".", "T", "X", "T">>>>
LowerExt == <<<<"a", ".", "t", "x", "t">>>>
TwoCaseFiles ==
    /\ DOMAIN fs0 = {UpperExt, LowerExt}
    /\ fs0[UpperExt].kind = "file"
    /\ fs0[LowerExt].kind = "file"

\* The command line gives --lower and, of the other options, at most those
\* that leave the names alone.
LowerRun ==
    [args EXCEPT !.yes = FALSE, !.dry_run = FALSE, !.recursive = FALSE,
                 !.no_keep_extension = FALSE]
      = [NoArgs EXCEPT !.lower = TRUE]

\* C16 (as stated): for "a.TXT" and "a.txt" with the lowercase option the
\* run reports a destination collision for "a.txt" and executes no rename.
C16_CaseCollisionReported ==
    (pc = "done" /\ TwoCaseFiles /\ LowerRun) =>
      /\ \E k \in 1..Len(conflicts) :
            conflicts[k].type = "collision" /\ conflicts[k].dst = LowerExt
      /\ outcomes = <<>>

\* C16 (amended): no rename is executed and no destination collision is
\* reported.  With the extension preserved neither name changes and there is
\* nothing to rename; with --no-keep-extension the one plan a.TXT -> a.txt
\* is reported as a destination that already exists and the run is aborted.
C16_CaseFilesLeftAlone ==
    (pc = "done" /\ TwoCaseFiles /\ LowerRun) =>
      /\ outcomes = <<>>
      /\ fs = fs0
      /\ IF args.no_keep_extension
         THEN /\ rc = 3
              /\ Len(conflicts) = 1
              /\ conflicts[1].type = "exists"
              /\ conflicts[1].src = UpperExt
              /\ conflicts[1].dst = LowerExt
         ELSE /\ rc = 0
              /\ outcome = "nothing"
              /\ plans = <<>>
              /\ conflicts = <<>>

C16_Witness ==
    /\ pc = "done"
    /\ TwoCaseFiles
    /\ LowerRun
    /\ args.no_keep_extension
    /\ outcome = "aborted"

\* The pattern given on the command line has an unterminated group.
InvalidPattern == \E k \in 1..Len(args.regex) : args.regex[k] = "("

\* C17: with an invalid pattern main returns 2 before build_rename_plans is
\* called: nothing is scanned (no warning), no plan is built, no conflict
\* check runs and no rename is performed.
C17_InvalidPatternFailsFast ==
    InvalidPattern =>
      /\ pc \in {"start", "done"}
      /\ pc = "done" => rc = 2 /\ outcome = "config_error"
      /\ plans = <<>>
      /\ warnings = {}
      /\ conflicts = <<>>
      /\ outcomes = <<>>
      /\ fs = fs0

\* main has returned on an invalid pattern, in a tree whose scan would have
\* warned.
C17_Witness ==
    /\ InvalidPattern
    /\ pc = "done"
    /\ WarnedPaths(fs0, args) # {}

\* The stages the way the specification orders them.  Substituted: the name
\* after the pattern substitution, which reads the name as it was given.
Substituted(name, o) ==
    IF o.regex = <<>> \/ (\E k \in 1..Len(o.regex) : o.regex[k] = "(")
    THEN name
    ELSE ReSub(o.regex, o.to, name)

\* Normalized: slugify, or without it the space replacement and lower case.
Normalized(name, o) ==
    IF o.slugify
    THEN slugify_name(name, o.lower, o.spaces_to_underscore, TRUE)
    ELSE LET spaced == IF o.spaces_to_underscore
                       THEN ReplaceCh(name, " ", "_") ELSE name
         IN  IF o.lower THEN Lower(spaced) ELSE spaced

\* Framed: the prefix and the suffix around the normalized name.
Framed(name, o) == o.prefix \o Normalized(Substituted(name, o), o) \o o.suffix

EndsWith(s, post) ==
    Len(post) <= Len(s) /\ SubSeq(s, Len(s) - Len(post) + 1, Len(s)) = post

\* Neither the first nor the last character of s is whitespace.
EdgeFree(s) == s # <<>> /\ s[1] \notin Whitespace /\ s[Len(s)] \notin Whitespace

\* C18: apply_transformations substitutes the pattern first, normalizes
\* second, adds the prefix and the suffix third and trims last: its result is
\* the trimmed frame, in which a prefix and a suffix stand as they were given
\* whatever slugify, lower case and the space replacement do to the name.
C18_StageOrder ==
    call.fn = "apply_transformations" =>
      /\ result = IF Strip(Framed(call.name, args), Whitespace) = <<>>
                  THEN FallbackName
                  ELSE Strip(Framed(call.name, args), Whitespace)
      /\ EdgeFree(args.prefix) => StartsWith(result, args.prefix)
      /\ EdgeFree(args.suffix) => EndsWith(result, args.suffix)

\* A call in which the pattern matches, slugify and lower case are on, and
\* the prefix and the suffix hold characters that slugify would change.
C18_Witness ==
    /\ call.fn = "apply_transformations"
    /\ args.slugify /\ args.lower
    /\ args.regex = <<"A">> /\ args.to = <<"B">>
    /\ Substituted(call.name, args) # call.name
    /\ args.prefix = <<"P", " ", "!">>
    /\ args.suffix = <<"S", " ", "!">>
    /\ result = args.prefix \o <<"b">> \o args.suffix

\* Every character of s is whitespace (as of the empty string).
Blank(s) == \A k \in 1..Len(s) : s[k] \in Whitespace

\* C19: for every name and every option set apply_transformations returns a
\* non-empty string without whitespace at its edges, and it returns "item"
\* whenever the stages leave nothing or whitespace only.
C19_NonEmptyTrimmed ==
    call.fn = "apply_transformations" =>
      /\ result # <<>>
      /\ result[1] \notin Whitespace
      /\ result[Len(result)] \notin Whitespace
      /\ Blank(Framed(call.name, args)) => result = FallbackName

\* The stages left whitespace, and more than none.
C19_Witness ==
    /\ call.fn = "apply_transformations"
    /\ Framed(call.name, args) # <<>>
    /\ Blank(Framed(call.name, args))
    /\ args.suffix # <<>>
    /\ result = FallbackName

\* C20: when slugify is applied to the stem of a file whose extension is
\* preserved, the dots of the stem are removed: the new stem (the new name
\* without the extension that was put back) holds no dot.
C20_SluggedStemHasNoDot ==
    ( /\ call.fn = "compute_new_name_for_path"
      /\ call.kind = "file"
      /\ ~args.no_keep_extension
      /\ args.slugify
      /\ args.prefix = <<>>
      /\ args.suffix = <<>> ) =>
      LET ext  == PathSuffix(call.name)
          stem == SubSeq(result, 1, Len(result) - Len(ext))
      IN  \A k \in 1..Len(stem) : stem[k] # "."

\* compute_new_name_for_path was called on the file name with the extension
\* preserved, without pattern, prefix and suffix.
ComputedForFile(name) ==
    /\ call.fn = "compute_new_name_for_path"
    /\ call.name = name
    /\ call.kind = "file"
    /\ ~args.no_keep_extension
    /\ args.regex = <<>> /\ args.prefix = <<>> /\ args.suffix = <<>>

\* C21 (as stated): for the file "My Report.PDF" with slugify and lowercase
\* enabled and the extension preserved, the new name is "my_report.PDF".
C21_MyReportUnderscore ==
    (ComputedForFile(MyReportPDF) /\ args.slugify /\ args.lower
       /\ ~args.spaces_to_underscore)
      => result = <<"m", "y", "_", "r", "e", "p", "o", "r", "t",
                    ".", "P", "D", "F">>

\* C21 (amended): the new name is "my-report.PDF", slugify turning the space
\* into a hyphen; it is "my_report.PDF" when space_to_underscore is enabled
\* too.  The extension ".PDF" keeps its case either way.
C21_MyReportHyphen ==
    (ComputedForFile(MyReportPDF) /\ args.slugify /\ args.lower)
      => result = <<"m", "y">>
                    \o (IF args.spaces_to_underscore THEN <<"_">> ELSE <<"-">>)
                    \o <<"r", "e", "p", "o", "r", "t", ".", "P", "D", "F">>

C21_Witness ==
    /\ ComputedForFile(MyReportPDF)
    /\ args.slugify /\ args.lower /\ ~args.spaces_to_underscore
    /\ result = <<"m", "y", "-", "r", "e", "p", "o", "r", "t",
                  ".", "P", "D", "F">>

\* C23: for the file "Relatorio Final!!.txt", its first "o" accented, with
\* slugify, lowercase and space_to_underscore enabled and the extension
\* preserved, the stem becomes "relatorio_final" and the new name is
\* "relatorio_final.txt".
C23_RelatorioFinal ==
    (ComputedForFile(RelatorioFinalTxt) /\ args.slugify /\ args.lower
       /\ args.spaces_to_underscore)
      => /\ result = <<"r", "e", "l", "a", "t", "o", "r", "i", "o", "_",
                       "f", "i", "n", "a", "l", ".", "t", "x", "t">>
         /\ PathStem(result) = <<"r", "e", "l", "a", "t", "o", "r", "i", "o",
                                 "_", "f", "i", "n", "a", "l">>

C23_Witness ==
    /\ ComputedForFile(RelatorioFinalTxt)
    /\ args.slugify /\ args.lower /\ args.spaces_to_underscore
    /\ PathSuffix(result) = <<".", "t", "x", "t">>

\* The whitelist of slugify_name.
SlugWhitelist(keep_dots) ==
    {UpperLetters[k] : k \in 1..26} \cup {LowerLetters[k] : k \in 1..26}
      \cup {DigitChars[k] : k \in 1..10} \cup {"_", "-"}
      \cup (IF keep_dots THEN {"."} ELSE {})

\* C22: what slugify_name returns is non-empty, holds whitelisted characters
\* only, has no two underscores and no two hyphens in a row, and neither
\* starts nor ends with an underscore or a hyphen.
C22_SlugShape ==
    call.fn = "slugify_name" =>
      /\ result # <<>>
      /\ \A k \in 1..Len(result) : result[k] \in SlugWhitelist(call.keep_dots)
      /\ \A k \in 1..(Len(result) - 1) :
            ~(result[k] = result[k + 1] /\ result[k] \in {"_", "-"})
      /\ result[1] \notin {"_", "-"}
      /\ result[Len(result)] \notin {"_", "-"}

\* The input had a run of underscores inside.
C22_Witness ==
    /\ call.fn = "slugify_name"
    /\ \E k \in 1..(Len(call.name) - 1) :
          call.name[k] = "_" /\ call.name[k + 1] = "_"
    /\ result = <<"a", "_", "a">>

\* C30: slugify_name is idempotent: applied, with the same options, to what
\* it returned, it returns the same, the fallback "item" included.
C30_SlugifyIdempotent ==
    call.fn = "slugify_name" =>
      slugify_name(result, args.lower, args.spaces_to_underscore,
                   call.keep_dots) = result

\* The first application produced the fallback.
C30_Witness ==
    /\ call.fn = "slugify_name"
    /\ call.name # <<>>
    /\ result = FallbackName

\* The neutral pipeline: no pattern, no slugify, no lower case, no space
\* replacement, no prefix and no suffix.
Neutral == [args EXCEPT !.no_keep_extension = FALSE] = NoArgs

\* C24: with a neutral pipeline the name computed from a computed name is
\* that name again: a second pass plans no rename.
C24_NeutralIdempotent ==
    (call.fn = "compute_new_name_for_path" /\ Neutral) =>
      compute_new_name_for_path(OneEntry(result, call.kind), args, <<result>>)
        = result

\* A neutral first pass that changed the name of a file with an extension.
C24_Witness ==
    /\ call.fn = "compute_new_name_for_path"
    /\ Neutral
    /\ call.kind = "file" /\ ~args.no_keep_extension
    /\ PathSuffix(call.name) # <<>>
    /\ result # call.name

\* The terminal outcomes of main with their statuses.
TerminalOutcomes ==
    {<<"config_error", 2>>, <<"nothing", 0>>, <<"aborted", 3>>,
     <<"dry_run", 0>>, <<"cancelled", 1>>, <<"completed", 0>>,
     <<"completed", 4>>}

\* C26: a run of main is on its way or has ended in one of the terminal
\* outcomes; execute_plans is entered only with plans, an empty conflict
\* report and dry-run off; in every outcome but "completed" nothing was
\* renamed; and a completed run made one attempt per plan, in order.
C26_OneTerminalOutcome ==
    /\ pc \in {"start", "planned", "validated", "executing", "done"}
    /\ pc = "done" => <<outcome, rc>> \in TerminalOutcomes
    /\ pc = "executing" =>
          /\ plans # <<>>
          /\ conflicts = <<>> /\ detect_conflicts(fs0, plans) = <<>>
          /\ ~args.dry_run
    /\ (pc = "done" /\ outcome # "completed") => outcomes = <<>> /\ fs = fs0
    /\ Executed =>
          /\ Len(outcomes) = Len(plans)
          /\ \A k \in 1..Len(outcomes) : outcomes[k].at = k

\* C27: a plan whose destination was an entry when the plans were built
\* (were it the source of another plan: a chain, a swap) gets a
\* target-exists conflict, the run is aborted, and so no entry is ever
\* renamed onto a name that was occupied.
C27_OccupiedDestinationRejected ==
    /\ (pc \notin {"start", "planned", "raised"}) =>
          \A k \in 1..Len(plans) :
            plans[k].dst \in DOMAIN fs0 =>
              /\ outcome = "aborted"
              /\ \E c \in 1..Len(conflicts) :
                    /\ conflicts[c].type = "exists"
                    /\ conflicts[c].dst = plans[k].dst
    /\ \A j \in 1..Len(outcomes) :
          outcomes[j].ok => plans[outcomes[j].at].dst \notin DOMAIN fs0

(***************************************************************************)
(* limpa_repo: the cleaner                                                 *)
(*                                                                         *)
(* It runs on the same kind of filesystem; its options are the record      *)
(* [dry_run, yes, include_hidden, add_dir, add_glob, prune_dirs].  A       *)
(* removal item is [kind, path], kind being "dir" or "file".               *)
(***************************************************************************)

DEFAULT_TARGET_DIRS ==
    { <<"_", "_", "p", "y", "c", "a", "c", "h", "e", "_", "_">>,
      <<".", "p", "y", "t", "e", "s", "t", "_", "c", "a", "c", "h", "e">>,
      <<".", "m", "y", "p", "y", "_", "c", "a", "c", "h", "e">>,
      <<".", "r", "u", "f", "f", "_", "c", "a", "c", "h", "e">>,
      <<".", "t", "o", "x">>,
      <<".", "c", "o", "v", "e", "r", "a", "g", "e">>,
      <<"d", "i", "s", "t">>,
      <<"b", "u", "i", "l", "d">>,
      <<"o", "u", "t">>,
      <<"t", "a", "r", "g", "e", "t">>,
      <<".", "g", "r", "a", "d", "l", "e">>,
      <<".", "i", "d", "e", "a">>,
      <<".", "v", "s", "c", "o", "d", "e">> }

DEFAULT_TARGET_GLOBS ==
    { <<"*", ".", "l", "o", "g">>,
      <<"*", ".", "t", "m", "p">>,
      <<"*", ".", "b", "a", "k">>,
      <<"*", ".", "s", "w", "p">>,
      <<"*", ".", "s", "w", "o">>,
      <<"*", "~">>,
      <<".", "D", "S", "_", "S", "t", "o", "r", "e">>,
      <<"T", "h", "u", "m", "b", "s", ".", "d", "b">> }

\* limpa_repo's own DEFAULT_PRUNE_DIRS.
LIMPA_DEFAULT_PRUNE_DIRS ==
    { <<".", "g", "i", "t">>,
      <<"n", "o", "d", "e", "_", "m", "o", "d", "u", "l", "e", "s">>,
      <<".", "v", "e", "n", "v">>,
      <<"v", "e", "n", "v">>,
      <<"e", "n", "v">> }

\* main: the lists handed to collect_targets.
TargetDirs(o) == DEFAULT_TARGET_DIRS \cup o.add_dir
TargetGlobs(o) == DEFAULT_TARGET_GLOBS \cup o.add_glob
LimpaPruneDirs(o) == LIMPA_DEFAULT_PRUNE_DIRS \cup o.prune_dirs

\* Path.glob on one level with the patterns used here: "*" followed by a
\* literal text matches the names that end with it (a leading dot
\* included), a pattern without "*" matches the name equal to it.
GlobMatch(pattern, name) ==
    IF pattern # <<>> /\ Head(pattern) = "*"
    THEN /\ Len(Tail(pattern)) <= Len(name)
         /\ SubSeq(name, Len(name) - Len(pattern) + 2, Len(name)) = Tail(pattern)
    ELSE name = pattern

\* The entries of the directory d.
Children(f, d) == {p \in DOMAIN f : Len(p) = Len(d) + 1 /\ Parent(p) = d}

\* prune_dirs_inplace: what stays of dirs.
prune_dirs_inplace(dirs, prune_names, include_hidden) ==
    {p \in dirs :
        /\ BaseName(p) \notin prune_names
        /\ include_hidden \/ ~StartsWith(BaseName(p), <<".">>)}

\* The dirs os.walk(root) lists in the directory d, after the pruning; a
\* link to a directory is listed among them.
KeptDirs(f, o, d) ==
    prune_dirs_inplace({p \in Children(f, d) : is_dir(f, p)},
                       LimpaPruneDirs(o), o.include_hidden)

\* The directories os.walk(root) visits from d on: it does not go through
\* links.
RECURSIVE LimpaWalk(_, _, _)
LimpaWalk(f, o, d) ==
    {d} \cup UNION {LimpaWalk(f, o, c) :
                      c \in {k \in KeptDirs(f, o, d) : f[k].kind = "dir"}}

\* collect_targets, part 1: the subdirectories of a visited directory whose
\* name is a target.
TargetDirsFound(f, o) ==
    UNION {{c \in KeptDirs(f, o, d) : BaseName(c) \in TargetDirs(o)} :
             d \in LimpaWalk(f, o, <<>>)}

\* collect_targets, part 2: what the globs match in a visited directory,
\* directories and (without --include-hidden) hidden names left out.
TargetFilesFound(f, o) ==
    UNION {{c \in Children(f, d) :
              /\ \E pattern \in TargetGlobs(o) : GlobMatch(pattern, BaseName(c))
              /\ ~is_dir(f, c)
              /\ o.include_hidden \/ ~is_hidden_path(c)} :
             d \in {v \in LimpaWalk(f, o, <<>>) :
                      ~(~o.include_hidden /\ v # <<>> /\ is_hidden_path(v))}}

\* The items appended before the dedup, as a set, and the warnings.
RawItems(f, o) ==
    {[kind |-> "dir", path |-> p] :
        p \in {q \in TargetDirsFound(f, o) : is_within_root(f, q)}}
      \cup {[kind |-> "file", path |-> p] :
              p \in {q \in TargetFilesFound(f, o) : is_within_root(f, q)}}

LimpaWarnings(f, o) ==
    {q \in TargetDirsFound(f, o) \cup TargetFilesFound(f, o) :
        ~is_within_root(f, q)}

\* The dedup: the first item of every key (kind, str(path.resolve())).
RECURSIVE Dedup(_, _, _)
Dedup(f, list, seen) ==
    IF list = <<>> THEN <<>>
    ELSE LET key == <<Head(list).kind, Resolve(f, Head(list).path)>>
         IN  IF key \in seen THEN Dedup(f, Tail(list), seen)
             ELSE <<Head(list)>> \o Dedup(f, Tail(list), seen \cup {key})

\* The key of the sort: str(x.path).lower().
ItemKey(item) == Lower(PathStr(item.path))

\* list.sort(key = ItemKey), which is stable: x goes behind the items whose
\* key is not greater.
RECURSIVE InsertItem(_, _)
InsertItem(sorted, x) ==
    IF sorted = <<>> THEN <<x>>
    ELSE IF StrLess(ItemKey(x), ItemKey(Head(sorted)))
         THEN <<x>> \o sorted
         ELSE <<Head(sorted)>> \o InsertItem(Tail(sorted), x)

RECURSIVE SortItems(_)
SortItems(list) ==
    IF list = <<>> THEN <<>>
    ELSE InsertItem(SortItems(SubSeq(list, 1, Len(list) - 1)), list[Len(list)])

\* The lists collect_targets can return: the items are appended in an
\* order the operating system chooses within a directory, which decides
\* what the dedup keeps and the order of items with equal keys.
collect_targets(f, o) ==
    {SortItems(Dedup(f, list, {})) : list \in Listings(RawItems(f, o))}

\* shutil.rmtree(p) raises: p is a symbolic link, or some entry of the tree
\* is in a directory that may not be written to.
RmtreeFails(f, r, p) ==
    \/ f[p].kind = "link"
    \/ \E q \in DOMAIN f : IsPrefix(p, q) /\ ParentIno(f, q) \in r

\* The filesystem after shutil.rmtree(p) raised: some entries beneath p,
\* each with all that is beneath it, are gone; p is still there.
RmtreePartial(f, r, p) ==
    IF f[p].kind = "link" THEN {f}
    ELSE {[q \in DOMAIN f \ S |-> f[q]] :
            S \in {T \in SUBSET {q \in DOMAIN f : IsPrefix(p, q) /\ q # p} :
                     \A q \in T :
                        /\ ParentIno(f, q) \notin r
                        /\ \A d \in DOMAIN f : IsPrefix(q, d) => d \in T}}

\* The filesystem after p and all beneath it were removed.
Without(f, p) == [q \in {d \in DOMAIN f : ~IsPrefix(p, d)} |-> f[q]]

\* remove_item that fails on a path that is not there.
RemoveFailsWhenMissing(f, r, item) ==
    \/ ~Exists(f, item.path)
    \/ IF item.kind = "file" THEN ParentIno(f, item.path) \in r
       ELSE RmtreeFails(f, r, item.path)

\* remove_item returns (False, ...): the unlink or the rmtree raised.  A
\* path that does not exist is not touched.
RemoveFails(f, r, item) ==
    /\ Exists(f, item.path)
    /\ IF item.kind = "file" THEN ParentIno(f, item.path) \in r
       ELSE RmtreeFails(f, r, item.path)

\* The filesystems remove_item can leave.
RemoveResults(f, r, item) ==
    IF ~Exists(f, item.path) THEN {f}
    ELSE IF RemoveFails(f, r, item)
         THEN IF item.kind = "file" THEN {f}
              ELSE RmtreePartial(f, r, item.path)
         ELSE {Without(f, item.path)}

\* ---- the bounded inputs of limpa_repo ------------------------------------

MaxLimpaEntries == 3

LimpaTop ==
    <<<<"d", "i", "s", "t">>, <<".", "t", "o", "x">>, <<"e", "n", "v">>,
      <<"s">>, <<"a", ".", "l", "o", "g">>, <<"B", ".", "l", "o", "g">>>>
LimpaSub == <<<<"d", "i", "s", "t">>, <<"a", ".", "l", "o", "g">>>>

\* Two levels below the root.
LimpaUniverse ==
    {<<n>> : n \in Range(LimpaTop)}
      \cup {<<d, m>> : d \in Range(LimpaTop), m \in Range(LimpaSub)}

LimpaIno(p) ==
    IF Len(p) = 1 THEN IndexOf(LimpaTop, p[1])
    ELSE Len(LimpaTop) * IndexOf(LimpaSub, p[2]) + IndexOf(LimpaTop, p[1])

LimpaPathSets ==
    {P \in SUBSET LimpaUniverse :
        /\ Cardinality(P) <= MaxLimpaEntries
        /\ \A p \in P : Len(p) > 1 => Parent(p) \in P}

\* A link points to the sibling "s" or to a regular file outside the root.
LimpaShapes ==
    [kind : {"file", "dir"}, target : {<<>>}]
      \cup [kind : {"link"}, target : {<<"s">>, OutsideName}]

LimpaTrees ==
    UNION {{[p \in P |-> [kind |-> t[p].kind, target |-> t[p].target,
                          ino |-> LimpaIno(p)]] :
              t \in {u \in [P -> LimpaShapes] :
                       \A p \in P :
                         /\ Len(p) > 1 => u[Parent(p)].kind = "dir"
                         /\ u[p].kind = "link" =>
                              /\ u[p].target # BaseName(p)
                              /\ WithName(p, u[p].target) \in P =>
                                   u[WithName(p, u[p].target)].kind # "link"}} :
           P \in LimpaPathSets}

\* The command lines of limpa_repo.
LimpaArgSets ==
    [dry_run : BOOLEAN, yes : BOOLEAN, include_hidden : BOOLEAN,
     add_dir : {{}, {<<"s">>}}, add_glob : {{}}, prune_dirs : {{}}]

\* What limpa_repo does not use.
limpaIdle == <<plans, conflicts, ok, err, call, result, pending, total_bytes,
               skipped>>

\* limpa_repo's main is called.
InitLimpa ==
    /\ args \in LimpaArgSets
    /\ fs \in LimpaTrees
    /\ ro \in {{}} \cup {{d} : d \in DirInos(fs)}
    /\ fs0 = fs
    /\ pc = "start"
    /\ items = <<>>
    /\ warnings = {}
    /\ idx = 1
    /\ ok_count = 0
    /\ err_count = 0
    /\ outcomes = <<>>
    /\ outcome = "running"
    /\ rc = -1
    /\ plans = <<>>
    /\ conflicts = <<>>
    /\ ok = 0
    /\ err = 0
    /\ call = NoCall
    /\ result = <<>>
    /\ pending = <<>>
    /\ total_bytes = 0
    /\ skipped = <<>>

\* ---- limpa_repo's main, step by step --------------------------------------

\* main: collect_targets returns no item.
NothingToRemove ==
    /\ pc = "start"
    /\ RawItems(fs, args) = {}
    /\ warnings' = LimpaWarnings(fs, args)
    /\ Return(0, "nothing")
    /\ UNCHANGED limpaIdle
    /\ UNCHANGED <<args, fs, ro, fs0, items, idx, ok_count, err_count,
                   outcomes>>

\* main: collect_targets returns the items, which are listed.
Collect ==
    /\ pc = "start"
    /\ RawItems(fs, args) # {}
    /\ items' \in collect_targets(fs, args)
    /\ warnings' = LimpaWarnings(fs, args)
    /\ pc' = "listed"
    /\ UNCHANGED limpaIdle
    /\ UNCHANGED <<args, fs, ro, fs0, idx, ok_count, err_count, outcomes,
                   outcome, rc>>

\* main: --dry-run.
LimpaDryRun ==
    /\ pc = "listed"
    /\ args.dry_run
    /\ Return(0, "dry_run")
    /\ UNCHANGED limpaIdle
    /\ UNCHANGED <<args, fs, ro, fs0, items, warnings, idx, ok_count,
                   err_count, outcomes>>

\* main: the answer to the question is not "sim".
LimpaCancel ==
    /\ pc = "listed"
    /\ ~args.dry_run /\ ~args.yes
    /\ Return(1, "cancelled")
    /\ UNCHANGED limpaIdle
    /\ UNCHANGED <<args, fs, ro, fs0, items, warnings, idx, ok_count,
                   err_count, outcomes>>

\* main: --yes, or the answer is "sim".
LimpaConfirm ==
    /\ pc = "listed"
    /\ ~args.dry_run
    /\ pc' = "removing"
    /\ UNCHANGED limpaIdle
    /\ UNCHANGED <<args, fs, ro, fs0, items, warnings, idx, ok_count,
                   err_count, outcomes, outcome, rc>>

\* main: one turn of the loop, remove_item returns (True, ...).
RemoveOk ==
    /\ pc = "removing"
    /\ idx <= Len(items)
    /\ ~RemoveFails(fs, ro, items[idx])
    /\ fs' \in RemoveResults(fs, ro, items[idx])
    /\ ok_count' = ok_count + 1
    /\ outcomes' = Append(outcomes, [at |-> idx, ok |-> TRUE,
                                     existed |-> Exists(fs, items[idx].path)])
    /\ idx' = idx + 1
    /\ UNCHANGED limpaIdle
    /\ UNCHANGED <<args, ro, fs0, pc, items, warnings, err_count, outcome, rc>>

\* main: one turn of the loop, remove_item returns (False, ...).
RemoveErr ==
    /\ pc = "removing"
    /\ idx <= Len(items)
    /\ RemoveFails(fs, ro, items[idx])
    /\ fs' \in RemoveResults(fs, ro, items[idx])
    /\ err_count' = err_count + 1
    /\ outcomes' = Append(outcomes, [at |-> idx, ok |-> FALSE,
                                     existed |-> Exists(fs, items[idx].path)])
    /\ idx' = idx + 1
    /\ UNCHANGED limpaIdle
    /\ UNCHANGED <<args, ro, fs0, pc, items, warnings, ok_count, outcome, rc>>

\* main: the loop is over; the summary and the exit status.
LimpaFinish ==
    /\ pc = "removing"
    /\ idx > Len(items)
    /\ Return(IF err_count = 0 THEN 0 ELSE 2, "completed")
    /\ UNCHANGED limpaIdle
    /\ UNCHANGED <<args, fs, ro, fs0, items, warnings, idx, ok_count,
                   err_count, outcomes>>

NextLimpa ==
    \/ NothingToRemove
    \/ Collect
    \/ LimpaDryRun
    \/ LimpaCancel
    \/ LimpaConfirm
    \/ RemoveOk
    \/ RemoveErr
    \/ LimpaFinish

SpecLimpa == InitLimpa /\ [][NextLimpa]_vars

(***************************************************************************)
(* Properties of limpa_repo                                                *)
(***************************************************************************)

\* The command line is the default one as far as the scan goes.
DefaultScan ==
    /\ ~args.include_hidden
    /\ args.add_dir = {} /\ args.add_glob = {} /\ args.prune_dirs = {}

\* p is beneath a directory prune_dirs_inplace drops.
BeneathPruned(o, p) ==
    \E k \in 1..(Len(p) - 1) :
       \/ p[k] \in LimpaPruneDirs(o)
       \/ ~o.include_hidden /\ StartsWith(p[k], <<".">>)

\* C25: with the default options, once collect_targets has returned, every
\* directory below the root that bears a target name and is not beneath a
\* pruned directory has its 'dir' item, the dot-prefixed target names
\* included.
C25_EveryTargetDirCollected ==
    (DefaultScan /\ pc # "start") =>
       \A p \in DOMAIN fs0 :
          (/\ fs0[p].kind = "dir"
           /\ BaseName(p) \in TargetDirs(args)
           /\ ~BeneathPruned(args, p))
            => \E k \in 1..Len(items) : items[k] = [kind |-> "dir", path |-> p]

\* C28: the removal loop attempts every collected item once, in the
\* case-insensitive order of the paths; an item whose path is gone when its
\* turn comes counts as a success; ok_count + err_count is the number of
\* items attempted, all of them at the end; main returns 0 when err_count
\* is 0 and 2 otherwise.
C28_RemovalLoop ==
    /\ \A k \in 1..(Len(items) - 1) :
          ~StrLess(Lower(PathStr(items[k + 1].path)),
                   Lower(PathStr(items[k].path)))
    /\ \A k \in 1..Len(outcomes) :
          /\ outcomes[k].at = k
          /\ ~outcomes[k].existed => outcomes[k].ok
    /\ ok_count = Cardinality({k \in 1..Len(outcomes) : outcomes[k].ok})
    /\ err_count = Cardinality({k \in 1..Len(outcomes) : ~outcomes[k].ok})
    /\ ok_count + err_count = Len(outcomes)
    /\ pc = "removing" => Len(outcomes) = idx - 1
    /\ outcome = "completed" =>
          /\ Len(outcomes) = Len(items)
          /\ ok_count + err_count = Len(items)
          /\ rc = 0 <=> err_count = 0
          /\ rc # 0 => rc = 2

\* The loop has ended; a file collected inside a target directory was gone
\* at its turn, the directory having been removed before it.
C28_Witness ==
    /\ outcome = "completed"
    /\ \E j, k \in 1..Len(outcomes) :
          /\ j < k
          /\ items[j].kind = "dir" /\ outcomes[j].ok /\ outcomes[j].existed
          /\ items[k].kind = "file" /\ IsPrefix(items[j].path, items[k].path)
          /\ ~outcomes[k].existed /\ outcomes[k].ok

(***************************************************************************)
(* empacotador: the packer                                                 *)
(*                                                                         *)
(* Here an entry of the filesystem is [kind, size, binary, dangling]: size *)
(* is what stat() reports (for a link, of the file it points to), binary   *)
(* what is_binary_file finds, dangling whether a link points to nothing.   *)
(* The links that point to a file all point to one file outside the root,  *)
(* the dangling ones all to one missing path.                              *)
(* The options are the record [include_hidden, follow_symlinks, max_bytes, *)
(* max_total_bytes, include_ext, exclude_ext, ignore_dirs, ignore_files,   *)
(* skip_paths].  A packed item is [rel_path, size_bytes].                  *)
(***************************************************************************)

DEFAULT_IGNORE_DIRS ==
    { <<".", "g", "i", "t">>,
      <<".", "s", "v", "n">>,
      <<".", "h", "g">>,
      <<"_", "_", "p", "y", "c", "a", "c", "h", "e", "_", "_">>,
      <<".", "p", "y", "t", "e", "s", "t", "_", "c", "a", "c", "h", "e">>,
      <<".", "m", "y", "p", "y", "_", "c", "a", "c", "h", "e">>,
      <<".", "r", "u", "f", "f", "_", "c", "a", "c", "h", "e">>,
      <<".", "t", "o", "x">>,
      <<".", "v", "e", "n", "v">>,
      <<"v", "e", "n", "v">>,
      <<"e", "n", "v">>,
      <<"n", "o", "d", "e", "_", "m", "o", "d", "u", "l", "e", "s">>,
      <<"d", "i", "s", "t">>,
      <<"b", "u", "i", "l", "d">>,
      <<"o", "u", "t">>,
      <<"t", "a", "r", "g", "e", "t">>,
      <<".", "i", "d", "e", "a">>,
      <<".", "v", "s", "c", "o", "d", "e">> }

DEFAULT_IGNORE_FILES ==
    { <<".", "D", "S", "_", "S", "t", "o", "r", "e">>,
      <<"T", "h", "u", "m", "b", "s", ".", "d", "b">> }

DEFAULT_MAX_BYTES == 1000000
DEFAULT_MAX_TOTAL_BYTES == 15000000

\* main: the lists handed to collect_files.
IgnoreDirs(o) == DEFAULT_IGNORE_DIRS \cup o.ignore_dirs
IgnoreFiles(o) == DEFAULT_IGNORE_FILES \cup o.ignore_files

should_skip_file(o, p) ==
    \/ BaseName(p) \in IgnoreFiles(o)
    \/ ~o.include_hidden /\ is_hidden_path(p)
    \/ o.exclude_ext # {} /\ Lower(PathSuffix(BaseName(p))) \in o.exclude_ext
    \/ o.include_ext # {} /\ Lower(PathSuffix(BaseName(p))) \notin o.include_ext

\* empacotador's prune_dirs_inplace: what stays of dirs.
pack_prune_dirs_inplace(dirs, ignore_dirs, include_hidden) ==
    {p \in dirs :
        /\ BaseName(p) \notin ignore_dirs
        /\ include_hidden \/ ~StartsWith(BaseName(p), <<".">>)}

\* The orders in which os.walk can yield the files from the directory d
\* on: the files of d in an order the operating system chooses, then the
\* kept subdirectories, in such an order too, one after the other.
RECURSIVE PackWalk(_, _, _), PackWalkAll(_, _, _)
PackWalk(f, o, d) ==
    LET files == {p \in Children(f, d) : f[p].kind # "dir"}
        dirs  == pack_prune_dirs_inplace(
                     {p \in Children(f, d) : f[p].kind = "dir"},
                     IgnoreDirs(o), o.include_hidden)
    IN  UNION {{fl \o rest : fl \in Listings(files),
                             rest \in PackWalkAll(f, o, dl)} :
                 dl \in Listings(dirs)}
PackWalkAll(f, o, dl) ==
    IF dl = <<>> THEN {<<>>}
    ELSE {a \o b : a \in PackWalk(f, o, Head(dl)),
                   b \in PackWalkAll(f, o, Tail(dl))}

\* Path.resolve() of empacotador's paths.
PackResolve(f, p) ==
    IF p \in DOMAIN f /\ f[p].kind = "link"
    THEN IF f[p].dangling THEN <<<<"/", "missing">>>> ELSE <<<<"/", "outside">>>>
    ELSE p

\* collect_files: fpath.resolve() is in skip_set.
InSkipSet(f, o, p) ==
    PackResolve(f, p) \in {PackResolve(f, q) : q \in o.skip_paths}

\* collect_files, one turn of the loop over files: what becomes of the file
\* p when total is the sum so far.
Verdict(f, o, p, total) ==
    IF InSkipSet(f, o, p) THEN "skip_paths"
    ELSE IF f[p].kind = "link" /\ ~o.follow_symlinks THEN "symlink"
    ELSE IF should_skip_file(o, p) THEN "rule"
    ELSE IF f[p].dangling THEN "stat_error"
    ELSE IF f[p].size > o.max_bytes THEN "too_large"
    ELSE IF f[p].binary THEN "binary"
    ELSE IF total + f[p].size > o.max_total_bytes THEN "total_limit"
    ELSE "collect"

\* The key of the final sort: x.rel_path.lower().
PackKey(item) == Lower(PathStr(item.rel_path))

RECURSIVE InsertPacked(_, _)
InsertPacked(sorted, x) ==
    IF sorted = <<>> THEN <<x>>
    ELSE IF StrLess(PackKey(x), PackKey(Head(sorted)))
         THEN <<x>> \o sorted
         ELSE <<Head(sorted)>> \o InsertPacked(Tail(sorted), x)

RECURSIVE SortPacked(_)
SortPacked(list) ==
    IF list = <<>> THEN <<>>
    ELSE InsertPacked(SortPacked(SubSeq(list, 1, Len(list) - 1)),
                      list[Len(list)])

\* ---- the bounded inputs of empacotador ----------------------------------

MaxPackEntries == 3
MaxSize == 3

PackTop == <<<<"a">>, <<"B">>, <<".", "h">>, <<"s">>, <<"e", "n", "v">>>>
PackSub == <<<<"a">>>>

PackUniverse ==
    {<<n>> : n \in Range(PackTop)}
      \cup {<<d, m>> : d \in {<<"s">>, <<"e", "n", "v">>}, m \in Range(PackSub)}

PackPathSets ==
    {P \in SUBSET PackUniverse :
        /\ Cardinality(P) <= MaxPackEntries
        /\ \A p \in P : Len(p) > 1 => Parent(p) \in P}

\* A text file, a binary file, a link to a text file, a link to nothing, a
\* directory.
PackShapes ==
    [kind : {"file"}, size : 1..MaxSize, binary : {FALSE}, dangling : {FALSE}]
      \cup [kind : {"file"}, size : {1}, binary : {TRUE}, dangling : {FALSE}]
      \cup [kind : {"link"}, size : {2}, binary : {FALSE}, dangling : {FALSE}]
      \cup [kind : {"link"}, size : {0}, binary : {FALSE}, dangling : {TRUE}]
      \cup [kind : {"dir"}, size : {0}, binary : {FALSE}, dangling : {FALSE}]

\* "s" and "env" are directories, the other names are not.
PackTrees ==
    UNION {{t \in [P -> PackShapes] :
              \A p \in P :
                 t[p].kind = "dir" <=> p \in {<<<<"s">>>>, <<<<"e", "n", "v">>>>}} :
           P \in PackPathSets}

\* The command lines of empacotador: the limits are small or negative;
\* --output may name the file "B" of the root; at most one of
\* --include-hidden, --follow-symlinks and --output is given.
PackArgSets ==
    {a \in [include_hidden : BOOLEAN, follow_symlinks : BOOLEAN,
            max_bytes : {2, 3}, max_total_bytes : {-1, 3},
            include_ext : {{}}, exclude_ext : {{}},
            ignore_dirs : {{}}, ignore_files : {{}},
            skip_paths : {{}, {<<<<"B">>>>}}] :
        /\ ~(a.include_hidden /\ a.follow_symlinks)
        /\ a.skip_paths # {} => ~a.include_hidden /\ ~a.follow_symlinks}

\* What empacotador does not use.
packIdle == <<ro, plans, warnings, conflicts, idx, ok, err, call, result,
              ok_count, err_count>>

\* empacotador's main is called.
InitPack ==
    /\ args \in PackArgSets
    /\ fs \in PackTrees
    /\ fs0 = fs
    /\ pc = "start"
    /\ items = <<>>
    /\ pending = <<>>
    /\ total_bytes = 0
    /\ skipped = <<>>
    /\ outcomes = <<>>
    /\ outcome = "running"
    /\ rc = -1
    /\ ro = {}
    /\ plans = <<>>
    /\ warnings = {}
    /\ conflicts = <<>>
    /\ idx = 1
    /\ ok = 0
    /\ err = 0
    /\ call = NoCall
    /\ result = <<>>
    /\ ok_count = 0
    /\ err_count = 0

\* ---- collect_files, step by step -----------------------------------------

\* collect_files: os.walk starts; the order in which it will yield the
\* files is the operating system's.
StartWalk ==
    /\ pc = "start"
    /\ pending' \in PackWalk(fs, args, <<>>)
    /\ pc' = "scanning"
    /\ UNCHANGED packIdle
    /\ UNCHANGED <<args, fs, fs0, items, total_bytes, skipped, outcomes,
                   outcome, rc>>

\* ProcessFile leaving the loop when the total limit is reached.
ProcessFileStoppingAtLimit ==
    /\ pc = "scanning"
    /\ pending # <<>>
    /\ LET p == Head(pending)
           v == Verdict(fs, args, p, total_bytes)
       IN  /\ IF v = "collect"
              THEN /\ items' = Append(items, [rel_path |-> p,
                                              size_bytes |-> fs[p].size])
                   /\ total_bytes' = total_bytes + fs[p].size
                   /\ skipped' = skipped
              ELSE /\ skipped' = Append(skipped, [cause |-> v, path |-> p])
                   /\ UNCHANGED <<items, total_bytes>>
           /\ outcomes' = Append(outcomes, [path |-> p, verdict |-> v])
           /\ pending' = IF v = "total_limit" THEN <<>> ELSE Tail(pending)
    /\ UNCHANGED packIdle
    /\ UNCHANGED <<args, fs, fs0, pc, outcome, rc>>

\* collect_files: one turn of the loop over the files; the file is packed
\* or skipped, and the loop goes on.
ProcessFile ==
    /\ pc = "scanning"
    /\ pending # <<>>
    /\ LET p == Head(pending)
           v == Verdict(fs, args, p, total_bytes)
       IN  /\ IF v = "collect"
              THEN /\ items' = Append(items, [rel_path |-> p,
                                              size_bytes |-> fs[p].size])
                   /\ total_bytes' = total_bytes + fs[p].size
                   /\ skipped' = skipped
              ELSE /\ skipped' = Append(skipped, [cause |-> v, path |-> p])
                   /\ UNCHANGED <<items, total_bytes>>
           /\ outcomes' = Append(outcomes, [path |-> p, verdict |-> v])
           /\ pending' = Tail(pending)
    /\ UNCHANGED packIdle
    /\ UNCHANGED <<args, fs, fs0, pc, outcome, rc>>

\* collect_files sorts the items and returns; main writes the pack and
\* returns 0.
PackFinish ==
    /\ pc = "scanning"
    /\ pending = <<>>
    /\ items' = SortPacked(items)
    /\ Return(0, "completed")
    /\ UNCHANGED packIdle
    /\ UNCHANGED <<args, fs, fs0, pending, total_bytes, skipped, outcomes>>

NextPack ==
    \/ StartWalk
    \/ ProcessFile
    \/ PackFinish

SpecPack == InitPack /\ [][NextPack]_vars

(***************************************************************************)
(* Properties of empacotador                                               *)
(***************************************************************************)

RECURSIVE SumSizes(_)
SumSizes(list) ==
    IF list = <<>> THEN 0 ELSE Head(list).size_bytes + SumSizes(Tail(list))

\* The sum of the sizes of the files packed before the k-th processed one.
RECURSIVE PackedBefore(_)
PackedBefore(k) ==
    IF k <= 1 THEN 0
    ELSE PackedBefore(k - 1)
           + (IF outcomes[k - 1].verdict = "collect"
              THEN fs[outcomes[k - 1].path].size ELSE 0)

\* The files os.walk yields.
WalkedFiles == UNION {Range(w) : w \in PackWalk(fs, args, <<>>)}

\* Every collected item is within max_bytes.
ItemsWithinMaxBytes ==
    \A k \in 1..Len(items) : items[k].size_bytes <= args.max_bytes

\* A skip for the total limit does not end the scan: every file the walk
\* yields is processed, and one that has passed the other tests is
\* collected exactly when it fits in what is left of the budget.
ScanGoesOn ==
    /\ pc = "scanning" => Len(outcomes) + Len(pending) = Cardinality(WalkedFiles)
    /\ pc = "done" => Len(outcomes) = Cardinality(WalkedFiles)
    /\ \A k \in 1..Len(outcomes) :
          outcomes[k].verdict \in {"collect", "total_limit"} =>
             (outcomes[k].verdict = "collect"
                <=> PackedBefore(k) + fs[outcomes[k].path].size
                      <= args.max_total_bytes)

\* C29 as stated: after every processed file the sum of the sizes of the
\* collected items is at most max_total_bytes, every collected item is at
\* most max_bytes, and a skip for the total limit does not end the scan.
C29_SumWithinLimit ==
    Len(outcomes) >= 1 =>
       /\ total_bytes = SumSizes(items)
       /\ total_bytes <= args.max_total_bytes
       /\ ItemsWithinMaxBytes
       /\ ScanGoesOn

\* C29, amended: the same, the bound on the sum being claimed for a
\* max_total_bytes that is not negative; with a negative one nothing is
\* collected and the sum stays 0.
C29_SumWithinNonNegativeLimit ==
    Len(outcomes) >= 1 =>
       /\ total_bytes = SumSizes(items)
       /\ args.max_total_bytes >= 0 => total_bytes <= args.max_total_bytes
       /\ args.max_total_bytes < 0 => items = <<>> /\ total_bytes = 0
       /\ ItemsWithinMaxBytes
       /\ ScanGoesOn

\* collect_files has returned; a file was packed, a later one was skipped
\* for the total limit, and one later still was packed.
C29_Witness ==
    /\ pc = "done"
    /\ args.max_total_bytes >= 0
    /\ \E i, j, k \in 1..Len(outcomes) :
          /\ i < j /\ j < k
          /\ outcomes[i].verdict = "collect"
          /\ outcomes[j].verdict = "total_limit"
          /\ outcomes[k].verdict = "collect"

====
